---- MODULE Spec2Model ----
(***************************************************************************)
(* Flight phase derivation rules of analysis_engine/flight_phase.py.       *)
(*                                                                         *)
(* A masked array is a sequence of samples [v, m]: v is the data value and *)
(* m is the mask bit (TRUE = invalid sample).  Python indices are 0-based; *)
(* At(a, i) reads a[i].  Deviations are held in half dots (1.0 dot = 2,    *)
(* 2.5 dots = 5).  An index computed by index_at_value is a fraction of a  *)
(* sample; such indices are held as integers in units of 1/Scale sample.   *)
(* None is <<>>, a value x that may be None is <<x>>.                      *)
(***************************************************************************)
EXTENDS Integers, Sequences, FiniteSets, TLC

VARIABLES
    pc,             \* position in the call under way
    \* scan_ils: its arguments, its locals and what it returned
    beam, ils_dots, height, scan_slice, ils_lost_idx, ret, returned_at,
    \* a node's derive: the node, the phases it created, the exception raised
    node, phases, error,
    \* the gear nodes: their arguments and the local gear_moving
    gear_down, gear_warn_l, gear_warn_n, gear_warn_r, frame, airs, frequency,
    gear_moving,
    \* the phase nodes: their arguments
    head, alt_aal, fast, freq, airborne, gas, turn_rate, lat, apps, lands,
    airspeed, ccds, gnds, toffs,
    \* the phase nodes: the events (key time instances) given to them
    tocs, tods, bods, liftoffs, touchdowns,
    \* the phase nodes: the section a loop has reached, the extrema of that
    \* section and the position (n) of the walk over them
    reached, pk_idxs, pk_vals, pk_n,
    \* the phase nodes: the warnings logged
    warned

ilsVars == <<beam, ils_dots, height, scan_slice, ils_lost_idx, ret, returned_at>>
outVars == <<node, phases, error>>
gearVars == <<gear_down, gear_warn_l, gear_warn_n, gear_warn_r, frame, airs,
              frequency, gear_moving>>
argVars == <<head, alt_aal, fast, freq, airborne, gas, turn_rate, lat, apps, lands,
             airspeed, ccds, gnds, toffs, tocs, tods, bods, liftoffs, touchdowns>>
walkVars == <<reached, pk_idxs, pk_vals, pk_n>>
nodeVars == <<argVars, walkVars, warned>>
vars == <<pc, ilsVars, outVars, gearVars, nodeVars>>
\* What a call of scan_ils, and a derive of a gear node, leave alone.
notIls == <<outVars, gearVars, nodeVars>>
notGear == <<ilsVars, nodeVars>>

\* ------------------------------------------------------------- bounds
\* Samples in the arrays given to scan_ils.
MaxLen == 6

\* ---------------------------------------------------------- constants
\* Units of one sample in which a fractional index is held.
Scale == 60
\* 1.0 dot, in half dots.
DOTS_ESTABLISHED == 2
\* 2.5 dots, in half dots.
DOTS_LOST == 5
\* Height (ft) below which the glideslope is not credited.
HEIGHT_200 == 200
\* Fewest valid samples the quality gate accepts.
MIN_VALID == 5

\* ------------------------------------------------------------ helpers
None == <<>>
Some(x) == <<x>>

V(x) == [v |-> x, m |-> FALSE]
Masked == [v |-> 0, m |-> TRUE]

At(a, i) == a[i + 1]
Abs(x) == IF x < 0 THEN -x ELSE x
Min2(a, b) == IF a < b THEN a ELSE b
Max2(a, b) == IF a > b THEN a ELSE b
SetMin(S) == CHOOSE x \in S : \A y \in S : x <= y
SetMax(S) == CHOOSE x \in S : \A y \in S : x >= y

\* Python's `x or d` for a number x: 0 is falsy.
PyOr(x, d) == IF x = 0 THEN d ELSE x
\* round() of a non-negative fractional index (half rounds up), and int().
Round(x) == (x + (Scale \div 2)) \div Scale
Trunc(x) == x \div Scale

\* np.ma.abs
ma_abs(a) == [i \in 1..Len(a) |-> [v |-> Abs(a[i].v), m |-> a[i].m]]

\* Indices of the valid samples of a[lo:hi].
ValidIdx(a, lo, hi) == {i \in Max2(lo, 0)..(Min2(hi, Len(a)) - 1) : ~At(a, i).m}

\* np.ma.count(a[lo:hi])
ma_count(a, lo, hi) == Cardinality(ValidIdx(a, lo, hi))

\* np.ma.flatnotmasked_edges(a[lo:hi]): the first and last valid index of the
\* sliced array, None when every sample is masked.
flatnotmasked_edges(a, lo, hi) ==
    LET S == ValidIdx(a, lo, hi)
    IN  IF S = {} THEN None ELSE <<SetMin(S) - lo, SetMax(S) - lo>>

\* first_valid_sample(a[lo:hi]): <<index, value>> of the first valid sample of
\* the sliced array, None when there is none.
first_valid_sample(a, lo, hi) ==
    LET S == ValidIdx(a, lo, hi)
    IN  IF S = {} THEN None ELSE <<SetMin(S) - lo, At(a, SetMin(S)).v>>

\* last_valid_sample(a[lo:hi])
last_valid_sample(a, lo, hi) ==
    LET S == ValidIdx(a, lo, hi)
    IN  IF S = {} THEN None ELSE <<SetMax(S) - lo, At(a, SetMax(S)).v>>

\* The array passes through (or touches) threshold between samples i and j.
Passes(a, i, j, threshold) ==
    /\ ~At(a, i).m
    /\ ~At(a, j).m
    /\ (At(a, i).v - threshold) * (At(a, j).v - threshold) <= 0

\* Fraction of the step from sample i to sample j at which threshold is met.
Interp(a, i, j, threshold) ==
    LET x == At(a, i).v
        y == At(a, j).v
    IN  IF x = y THEN 0 ELSE (Scale * Abs(threshold - x)) \div Abs(y - x)

\* index_at_value(array, threshold, slice(start, stop, step)), endpoint
\* 'exact': the first place, scanning from start towards stop, where the
\* array crosses threshold, interpolated between the two samples; None when
\* it does not cross.  start and stop are fractional indices.
index_at_value(array, threshold, start, stop, step) ==
    LET max_index == Len(array)
    IN  IF step = 1
        THEN LET begin == Max2(Round(PyOr(start, 0)), 0)
                 end == Min2(Round(PyOr(stop, max_index * Scale)), max_index)
                 X == {i \in begin..(end - 2) : Passes(array, i, i + 1, threshold)}
             IN  IF begin = end \/ Abs(begin - end) < 2 \/ X = {}
                 THEN None
                 ELSE Some(SetMin(X) * Scale
                           + Interp(array, SetMin(X), SetMin(X) + 1, threshold))
        ELSE LET begin == Min2(Round(PyOr(start, max_index * Scale)), max_index - 1)
                 end == Max2(Trunc(PyOr(stop, 0)), 0)
                 X == {i \in (end + 1)..begin : Passes(array, i, i - 1, threshold)}
             IN  IF begin = end \/ Abs(begin - end) < 2 \/ X = {}
                 THEN None
                 ELSE Some(SetMax(X) * Scale
                           - Interp(array, SetMax(X), SetMax(X) - 1, threshold))

\* The array descends through threshold from sample i to sample i + 1.
Descends(a, i, threshold) ==
    /\ ~At(a, i).m
    /\ ~At(a, i + 1).m
    /\ At(a, i).v > threshold
    /\ At(a, i + 1).v <= threshold

\* index_at_value(..., endpoint='closing') scanning backward from start to
\* stop: the last time the array was above threshold before going below,
\* interpolated.  When the array never does so in the range the result is
\* left open: None, or any index of the range scanned, array[start:stop:-1],
\* which leaves out the sample at stop.
index_at_value_closing(array, threshold, start, stop) ==
    LET begin == Min2(Round(PyOr(start, Len(array) * Scale)), Len(array) - 1)
        end == Max2(Trunc(PyOr(stop, 0)), 0)
        D == {i \in end..(begin - 1) : Descends(array, i, threshold)}
    IN  IF D # {}
        THEN {Some((SetMax(D) + 1) * Scale
                   - Interp(array, SetMax(D) + 1, SetMax(D), threshold))}
        ELSE {None} \cup {Some(i * Scale) : i \in (end + 1)..begin}

\* -------------------------------------------------------------- scan_ils
Returned(kind, start, stop) == [kind |-> kind, start |-> start, stop |-> stop]
Running == Returned("running", 0, 0)
ReturnNone == Returned("None", 0, 0)
RaiseTypeError == Returned("TypeError", 0, 0)

\* Lines 719-724: the quality gate.  "TypeError" when valid_ends is None (the
\* sum valid_ends + scan_slice.start fails), "None" when rejected, else "pass".
quality_gate(dots, s) ==
    LET valid_ends == flatnotmasked_edges(dots, s.start, s.stop)
    IN  IF valid_ends = None
        THEN "TypeError"
        ELSE LET lo == valid_ends[1] + s.start
                 hi == valid_ends[2] + s.start
             IN  IF ma_count(dots, s.start, s.stop) < MIN_VALID
                 THEN "None"
                 ELSE IF 10 * ma_count(dots, lo, hi) < 4 * (hi - lo)
                      THEN "None"
                      ELSE "pass"

\* A loss index that is the last valid sample itself, not the one after it.
loss_of_capture_at_last(dots, s) ==
    LET ils_abs == ma_abs(dots)
        last == last_valid_sample(ils_abs, s.start, s.stop)
    IN  IF last[2] < DOTS_LOST
        THEN Some((s.start + last[1]) * Scale)
        ELSE index_at_value(ils_abs, DOTS_LOST, s.stop * Scale, s.start * Scale, -1)

\* A loss index two past the last valid sample.
loss_of_capture_past_end(dots, s) ==
    LET ils_abs == ma_abs(dots)
        last == last_valid_sample(ils_abs, s.start, s.stop)
    IN  IF last[2] < DOTS_LOST
        THEN Some((s.start + last[1] + 2) * Scale)
        ELSE index_at_value(ils_abs, DOTS_LOST, s.stop * Scale, s.start * Scale, -1)

\* Lines 729-743: the index where capture is lost, None when the beam never
\* went below 2.5 dots.
loss_of_capture(dots, s) ==
    LET ils_abs == ma_abs(dots)
        last == last_valid_sample(ils_abs, s.start, s.stop)
    IN  IF last[2] < DOTS_LOST
        THEN Some((s.start + last[1] + 1) * Scale)
        ELSE index_at_value(ils_abs, DOTS_LOST, s.stop * Scale, s.start * Scale, -1)

\* No height clipping at all.
height_clip_none(b, lost, idx_200) == lost

\* Lines 745-752: the glideslope is not credited after height last passed 200 ft.
height_clip(b, lost, idx_200) ==
    IF b = "glideslope" /\ idx_200 # None THEN Min2(lost, idx_200[1]) ELSE lost

\* Line 760: `if scan_start_idx:` -- None and index 0 are both falsy.
scan_start_found(scan_start_idx) == scan_start_idx # None /\ scan_start_idx[1] # 0

\* A capture that ignores where the first valid sample lies.
start_of_capture_at_start(dots, s, lost) ==
    LET ils_abs == ma_abs(dots)
        scan_start_idx == index_at_value(ils_abs, DOTS_LOST, lost, s.start * Scale, -1)
    IN  IF scan_start_found(scan_start_idx)
        THEN LET c == index_at_value(ils_abs, DOTS_ESTABLISHED, scan_start_idx[1], lost, 1)
             IN  IF c = None THEN ReturnNone ELSE Returned("slice", c[1], lost)
        ELSE LET first == first_valid_sample(ils_abs, s.start, Trunc(lost))
             IN  IF first = None
                 THEN RaiseTypeError
                 ELSE IF first[2] < DOTS_ESTABLISHED
                      THEN Returned("slice", s.start * Scale, lost)
                      ELSE LET c == index_at_value(ils_abs, DOTS_ESTABLISHED,
                                                   s.start * Scale, lost, 1)
                           IN  IF c = None THEN ReturnNone
                               ELSE Returned("slice", c[1], lost)

\* Lines 754-779: the capture index and the value returned.
start_of_capture(dots, s, lost) ==
    LET ils_abs == ma_abs(dots)
        scan_start_idx == index_at_value(ils_abs, DOTS_LOST, lost, s.start * Scale, -1)
    IN  IF scan_start_found(scan_start_idx)
        THEN LET c == index_at_value(ils_abs, DOTS_ESTABLISHED, scan_start_idx[1], lost, 1)
             IN  IF c = None THEN ReturnNone ELSE Returned("slice", c[1], lost)
        ELSE LET first == first_valid_sample(ils_abs, s.start, Trunc(lost))
             IN  IF first = None
                 THEN RaiseTypeError
                 ELSE IF first[2] < DOTS_ESTABLISHED
                      THEN Returned("slice", (s.start + first[1]) * Scale, lost)
                      ELSE LET c == index_at_value(ils_abs, DOTS_ESTABLISHED,
                                                   s.start * Scale, lost, 1)
                           IN  IF c = None THEN ReturnNone
                               ELSE Returned("slice", c[1], lost)

\* scan_ils, lines 716-724.
ScanGate ==
    /\ pc = "gate"
    /\ LET g == quality_gate(ils_dots, scan_slice)
       IN  IF g = "pass"
           THEN pc' = "loss" /\ UNCHANGED <<ret, returned_at>>
           ELSE /\ pc' = "done"
                /\ ret' = (IF g = "None" THEN ReturnNone ELSE RaiseTypeError)
                /\ returned_at' = "gate"
    /\ UNCHANGED <<beam, ils_dots, height, scan_slice, ils_lost_idx>>
    /\ UNCHANGED notIls

\* scan_ils, lines 729-743.
FindLoss ==
    /\ pc = "loss"
    /\ LET lost == loss_of_capture(ils_dots, scan_slice)
       IN  IF lost = None
           THEN /\ pc' = "done"
                /\ ret' = ReturnNone
                /\ returned_at' = "loss"
                /\ UNCHANGED ils_lost_idx
           ELSE /\ pc' = "height"
                /\ ils_lost_idx' = lost[1]
                /\ UNCHANGED <<ret, returned_at>>
    /\ UNCHANGED <<beam, ils_dots, height, scan_slice>>
    /\ UNCHANGED notIls

\* scan_ils, lines 745-752.
ClipHeight ==
    /\ pc = "height"
    /\ \E idx_200 \in index_at_value_closing(height, HEIGHT_200,
                                             scan_slice.stop * Scale,
                                             scan_slice.start * Scale) :
          ils_lost_idx' = height_clip(beam, ils_lost_idx, idx_200)
    /\ pc' = "capture"
    /\ UNCHANGED <<beam, ils_dots, height, scan_slice, ret, returned_at>>
    /\ UNCHANGED notIls

\* scan_ils, lines 754-779.
FindCapture ==
    /\ pc = "capture"
    /\ ret' = start_of_capture(ils_dots, scan_slice, ils_lost_idx)
    /\ returned_at' = "capture"
    /\ pc' = "done"
    /\ UNCHANGED <<beam, ils_dots, height, scan_slice, ils_lost_idx>>
    /\ UNCHANGED notIls

NextIls == ScanGate \/ FindLoss \/ ClipHeight \/ FindCapture

\* ------------------------------------------------------- scan_ils inputs
Arrays(S, n) == [1..n -> S]

\* 0.5, 1.5, 2.5 and -3.0 dots, or an invalid sample.
DotSamples == {V(1), V(3), V(5), V(-6), Masked}
HeightSamples == {V(150), V(250)}

\* Search intervals [start, stop) of an array of n samples.
ScanSlices(n) == {[start |-> s, stop |-> e] : s \in {0, 1}, e \in {n - 1, n}}

NoError == [type |-> "", name |-> "", frame |-> <<>>]

\* No node is deriving.
OutIdle == node = "" /\ phases = <<>> /\ error = NoError /\ warned = <<>>
GearIdle ==
    /\ gear_down = <<>> /\ gear_warn_l = <<>> /\ gear_warn_n = <<>>
    /\ gear_warn_r = <<>> /\ frame = <<>> /\ airs = <<>> /\ frequency = 1
    /\ gear_moving = <<>>

\* One sample a second.
OneHertz == [num |-> 1, den |-> 1]
WalkIdle == reached = 1 /\ pk_idxs = <<>> /\ pk_vals = <<>> /\ pk_n = 0
\* Arguments that a node does not take.
NoRunway == head = <<>> /\ fast = <<>>
NoSections == airborne = <<>> /\ gas = <<>> /\ apps = <<>> /\ lands = <<>>
NoTurns == turn_rate = <<>> /\ lat = <<>>
NoDerived == airspeed = <<>> /\ ccds = <<>> /\ gnds = <<>> /\ toffs = <<>>
NoEvents ==
    /\ tocs = <<>> /\ tods = <<>> /\ bods = <<>>
    /\ liftoffs = <<>> /\ touchdowns = <<>>
NodeIdle ==
    /\ alt_aal = <<>> /\ freq = OneHertz
    /\ NoRunway /\ NoSections /\ NoTurns /\ NoDerived /\ NoEvents
    /\ WalkIdle

InitCall ==
    /\ pc = "gate"
    /\ OutIdle
    /\ GearIdle
    /\ NodeIdle
    /\ ils_lost_idx = 0
    /\ ret = Running
    /\ returned_at = ""

\* The localizer scan: any deviation signal, height not read.
InitLoc ==
    /\ beam = "localizer"
    /\ ils_dots \in Arrays(DotSamples, MaxLen)
    /\ height = [i \in 1..MaxLen |-> V(250)]
    /\ scan_slice \in ScanSlices(MaxLen)
    /\ InitCall

SpecLoc == InitLoc /\ [][NextIls]_vars

\* The glideslope scan: deviation inside 1 dot, outside 2.5 dots or invalid,
\* over any height profile around 200 ft.
GsDotSamples == {V(1), V(-6), Masked}

InitGs ==
    /\ beam = "glideslope"
    /\ ils_dots \in Arrays(GsDotSamples, MaxLen)
    /\ height \in Arrays(HeightSamples, MaxLen)
    /\ scan_slice \in {[start |-> 0, stop |-> MaxLen], [start |-> 1, stop |-> MaxLen - 1]}
    /\ InitCall

SpecGs == InitGs /\ [][NextIls]_vars

\* The quality gate on a long, sparse signal: every sample 0.5 dots or invalid.
GateLen == 12

InitGate ==
    /\ beam = "localizer"
    /\ ils_dots \in Arrays({V(1), Masked}, GateLen)
    /\ height = [i \in 1..GateLen |-> V(250)]
    /\ scan_slice = [start |-> 0, stop |-> GateLen]
    /\ InitCall

SpecGate == InitGate /\ [][NextIls]_vars

\* ------------------------------------------------------ scan_ils claims
\* Valid samples of the search interval and what the claims say of them.
S_start == scan_slice.start
S_stop == scan_slice.stop
S_valid == ValidIdx(ils_dots, S_start, S_stop)
S_abs(i) == Abs(At(ils_dots, i).v)
S_passed_gate == pc # "gate" /\ returned_at # "gate"

\* C1 (as claimed): with fewer than 5 valid deviation samples in the search
\* interval, none included, scan_ils returns None and raises nothing.
C1_FewValidReturnsNone ==
    (pc = "done" /\ Cardinality(S_valid) < MIN_VALID) => ret = ReturnNone

\* Height descends through 200 ft between samples i and i + 1 of the range
\* the scan reads.
S_descents ==
    {i \in S_start..(Min2(S_stop, Len(height) - 1) - 1) :
        At(height, i).v > HEIGHT_200 /\ At(height, i + 1).v <= HEIGHT_200}
\* The place of the last descent through 200 ft, between the last sample
\* above 200 ft and the one that follows it.
S_last_above_200 ==
    LET i == SetMax(S_descents)
    IN  i * Scale + (Scale * (At(height, i).v - HEIGHT_200))
                        \div (At(height, i).v - At(height, i + 1).v)

\* C2: a glideslope interval returned over a height profile that descends
\* through 200 ft stops no later than where height was last above 200 ft.
C2_GlideslopeNotBelow200 ==
    (pc = "done" /\ beam = "glideslope" /\ ret.kind = "slice" /\ S_descents # {})
        => ret.stop <= S_last_above_200

\* C2 witness: the deviation stays inside 1 dot to the end of the interval
\* and the interval returned stops where height last was above 200 ft.
C2_Witness ==
    /\ pc = "done" /\ beam = "glideslope" /\ ret.kind = "slice"
    /\ S_descents # {}
    /\ ret.stop = S_last_above_200
    /\ \A i \in SetMax(S_descents)..(S_stop - 1) :
          ~At(ils_dots, i).m /\ S_abs(i) < DOTS_ESTABLISHED

\* The 2.5-dot crossing scanning backward from the loss index, the first valid
\* sample of the interval, and the 1.0-dot crossing scanning forward from x.
S_scan_start ==
    index_at_value(ma_abs(ils_dots), DOTS_LOST, ils_lost_idx, S_start * Scale, -1)
S_first_valid == first_valid_sample(ma_abs(ils_dots), S_start, Trunc(ils_lost_idx))
S_first_1dot_from(x) ==
    index_at_value(ma_abs(ils_dots), DOTS_ESTABLISHED, x, ils_lost_idx, 1)

\* C3 (as claimed): the capture index is the first 1.0-dot crossing forward
\* from scan_start when scan_start exists (index 0 included); else the start
\* of the search interval when the first valid sample is below 1.0 dot; else
\* the first 1.0-dot crossing forward from the interval start.
C3_CaptureAsClaimed ==
    (pc = "done" /\ ret.kind = "slice") =>
        IF S_scan_start # None
        THEN Some(ret.start) = S_first_1dot_from(S_scan_start[1])
        ELSE IF S_first_valid[2] < DOTS_ESTABLISHED
             THEN ret.start = S_start * Scale
             ELSE Some(ret.start) = S_first_1dot_from(S_start * Scale)

\* C3 (amended): as claimed, but with no scan_start and the first valid sample
\* below 1.0 dot the interval starts at the index of that first valid sample.
C3_CaptureIndex ==
    (pc = "done" /\ ret.kind = "slice") =>
        IF S_scan_start # None
        THEN Some(ret.start) = S_first_1dot_from(S_scan_start[1])
        ELSE IF S_first_valid[2] < DOTS_ESTABLISHED
             THEN ret.start = (S_start + S_first_valid[1]) * Scale
             ELSE Some(ret.start) = S_first_1dot_from(S_start * Scale)

\* C3 witness: an interval returned with no scan_start, whose first sample is
\* invalid and whose first valid sample is below 1.0 dot.
C3_Witness ==
    /\ pc = "done" /\ ret.kind = "slice"
    /\ S_scan_start = None
    /\ S_first_valid[1] > 0
    /\ S_first_valid[2] < DOTS_ESTABLISHED

\* The last valid sample of the search interval.
S_last_valid_idx == SetMax(S_valid)
S_last_25_idx ==
    index_at_value(ma_abs(ils_dots), DOTS_LOST, S_stop * Scale, S_start * Scale, -1)

\* C4: before any height clipping the loss index is the index after the last
\* valid sample when that sample is below 2.5 dots; otherwise it is the last
\* 2.5-dot crossing found backward from the interval end, and scan_ils
\* returns None when there is none.
C4_LossIndex ==
    /\ pc = "height" =>
          IF S_abs(S_last_valid_idx) < DOTS_LOST
          THEN ils_lost_idx = (S_last_valid_idx + 1) * Scale
          ELSE Some(ils_lost_idx) = S_last_25_idx
    /\ (S_passed_gate /\ pc # "loss") =>
          ((returned_at = "loss" /\ ret = ReturnNone)
              <=> (S_abs(S_last_valid_idx) >= DOTS_LOST /\ S_last_25_idx = None))

\* C4 witness: the last valid sample is not the last sample of the interval,
\* it is at or above 2.5 dots and a crossing was found.
C4_Witness ==
    /\ pc = "height"
    /\ S_last_valid_idx < S_stop - 1
    /\ S_abs(S_last_valid_idx) >= DOTS_LOST
    /\ Some(ils_lost_idx) = S_last_25_idx

\* C4 second case: the last valid sample is below 2.5 dots.
C4_WitnessStillCaptured ==
    /\ pc = "height"
    /\ S_last_valid_idx < S_stop - 1
    /\ S_abs(S_last_valid_idx) < DOTS_LOST

\* C5 (as claimed): with at least 5 valid samples the gate rejects exactly
\* when the valid fraction of the range from the first to the last valid
\* sample, both included, is below 0.4.
C5_GateFraction ==
    (pc # "gate" /\ Cardinality(S_valid) >= MIN_VALID) =>
        ((returned_at = "gate" /\ ret = ReturnNone)
            <=> 10 * Cardinality(S_valid) < 4 * (SetMax(S_valid) - SetMin(S_valid) + 1))

\* ------------------------------------------------------------ gear nodes
\* Samples in the arrays of the gear nodes without warning signals.
GearLen == 5
\* Samples in the arrays of the gear nodes with the three warning signals.
WarnLen == 4
\* Seconds allowed for the gear to travel when no transit state is recorded.
GEAR_TRANSIT_SECONDS == 5
\* Raw values of the Gear Down states.
GEAR_UP == 0
GEAR_DOWN == 1

Slice(start, stop) == [start |-> start, stop |-> stop]

\* The elements of a set of integers in ascending order.
Sorted(S) ==
    [k \in 1..Cardinality(S) |-> CHOOSE x \in S : Cardinality({y \in S : y < x}) = k - 1]

RECURSIVE Flatten(_)
\* sum(list_of_lists, [])
Flatten(ss) == IF ss = <<>> THEN <<>> ELSE Head(ss) \o Flatten(Tail(ss))

\* a[i] with Python's indexing: a negative i counts from the end.
PyAt(a, i) == IF i < 0 THEN a[Len(a) + i + 1] ELSE a[i + 1]

\* seq[1::2] and seq[::2]
OddItems(seq) == [k \in 1..(Len(seq) \div 2) |-> seq[2 * k]]
EvenItems(seq) == [k \in 1..((Len(seq) + 1) \div 2) |-> seq[2 * k - 1]]

\* np.ma.logical_or(a, b), also (a == 'Warning') | (b == 'Warning'): the data
\* are or-ed and a sample is invalid when it is invalid in a or in b.
logical_or(a, b) ==
    [i \in 1..Len(a) |->
        [v |-> IF a[i].v = 1 \/ b[i].v = 1 THEN 1 ELSE 0, m |-> a[i].m \/ b[i].m]]

\* numpy.ma.extras._ezclump: the runs of equal data of a bool array, every
\* run a slice, in order.  It reads the data, whatever the mask.
_ezclump(a) ==
    LET n == Len(a)
        B == Sorted({i \in 0..(n - 1) : i = 0 \/ At(a, i).v # At(a, i - 1).v})
    IN  [k \in 1..Len(B) |-> Slice(B[k], IF k < Len(B) THEN B[k + 1] ELSE n)]

\* np.ma.masked_equal(a, x)
masked_equal(a, x) == [i \in 1..Len(a) |-> [v |-> a[i].v, m |-> a[i].m \/ a[i].v = x]]

\* np.ma.clump_unmasked(a): the maximal runs of valid samples, in order.
clump_unmasked(a) ==
    LET n == Len(a)
        B == Sorted({i \in 0..(n - 1) : ~At(a, i).m /\ (i = 0 \/ At(a, i - 1).m)})
        End(i) == SetMin({j \in (i + 1)..n : j = n \/ At(a, j).m})
    IN  [k \in 1..Len(B) |-> Slice(B[k], End(B[k]))]

\* slices_and([air], moving): the non-empty overlaps of air with each slice.
slices_and(air, moving) ==
    LET cut(x) == Slice(Max2(air.start, x.start), Min2(air.stop, x.stop))
    IN  SelectSeq([k \in 1..Len(moving) |-> cut(moving[k])],
                  LAMBDA x : x.start < x.stop)

\* find_edges(array, _slice, direction): the indices inside _slice where the
\* array steps up (rising) or down (falling) from the sample before, in order.
find_edges(a, air, direction) ==
    Sorted({i \in (air.start + 1)..(Min2(air.stop, Len(a)) - 1) :
               /\ ~At(a, i).m /\ ~At(a, i - 1).m
               /\ IF direction = "rising_edges"
                  THEN At(a, i).v > At(a, i - 1).v
                  ELSE At(a, i).v < At(a, i - 1).v})

Supplied(p) == p # None
\* any((l, n, r)) and not all((l, n, r)): lines 596-598 and 657-659.
some_not_all_too_few(l, n, r) ==
    Supplied(l) /\ ~(Supplied(l) /\ Supplied(n) /\ Supplied(r))
some_not_all(l, n, r) ==
    /\ Supplied(l) \/ Supplied(n) \/ Supplied(r)
    /\ ~(Supplied(l) /\ Supplied(n) /\ Supplied(r))

\* DataFrameError(self.name, frame_name), lines 599-602.
DataFrameError(name, fr) == [type |-> "DataFrameError", name |-> name, frame |-> fr]
IndexError == [type |-> "IndexError", name |-> "", frame |-> None]

\* Lines 603-609 and 664-672: the runs of the combined warning taken as moving.
combined_warning(l, n, r) == logical_or(logical_or(l, r), n)
moving_runs(gear_warn) ==
    LET slices == _ezclump(gear_warn)
        first == first_valid_sample(gear_warn, 0, Len(gear_warn))
    IN  IF first # None /\ first[2] = 0 THEN OddItems(slices) ELSE EvenItems(slices)

\* Lines 610-615 and 673-677: a moving run inside an airborne section becomes
\* a phase when the gear state at the sample before it reads `prior`.
reads(sample, state) == ~sample.m /\ sample.v = state
transit_phases(gd, moving, sections, prior) ==
    Flatten([k \in 1..Len(sections) |->
                SelectSeq(slices_and(sections[k], moving),
                          LAMBDA g : reads(PyAt(gd, g.start - 1), prior))])

\* The window of five seconds taken at every sample rate.
edge_window_one_hertz(edge, hz) == Slice(edge, edge + GEAR_TRANSIT_SECONDS)
\* Lines 626-628 and 688-690.
edge_window(edge, hz) == Slice(edge, edge + GEAR_TRANSIT_SECONDS * hz)

\* Lines 619-628 and 680-690: a phase at every edge found in every section.
edge_phases(gd, sections, direction, hz) ==
    LET edges == Flatten([k \in 1..Len(sections) |-> find_edges(gd, sections[k], direction)])
    IN  [k \in 1..Len(edges) |-> edge_window(edges[k], hz)]

\* GearExtending.derive and GearRetracting.derive, lines 591-628 and 652-690.
GearTransit(name, prior, direction) ==
    /\ pc = "derive"
    /\ pc' = "done"
    /\ node' = name
    /\ IF some_not_all(gear_warn_l, gear_warn_n, gear_warn_r)
       THEN /\ error' = DataFrameError(name, frame)
            /\ UNCHANGED <<phases, gear_moving>>
       ELSE IF Supplied(gear_warn_l)
            THEN LET gear_warn == combined_warning(gear_warn_l[1], gear_warn_n[1],
                                                   gear_warn_r[1])
                 IN  /\ gear_moving' = moving_runs(gear_warn)
                     /\ phases' = transit_phases(gear_down, moving_runs(gear_warn),
                                                 airs, prior)
                     /\ UNCHANGED error
            ELSE /\ phases' = edge_phases(gear_down, airs, direction, frequency)
                 /\ UNCHANGED <<error, gear_moving>>
    /\ UNCHANGED <<gear_down, gear_warn_l, gear_warn_n, gear_warn_r, frame, airs,
                   frequency>>
    /\ UNCHANGED notGear

GearExtendingDerive == GearTransit("Gear Extending", GEAR_UP, "rising_edges")
GearRetractingDerive == GearTransit("Gear Retracting", GEAR_DOWN, "falling_edges")

\* Lines 639-640: the last run is cut by one sample when it ends with the array.
trim_last(slice_list, n) ==
    [k \in 1..Len(slice_list) |->
        IF k = Len(slice_list) /\ slice_list[k].stop = n
        THEN Slice(slice_list[k].start, slice_list[k].stop - 1)
        ELSE slice_list[k]]

\* GearExtended.derive, lines 635-641.  slice_list[-1] of an empty list
\* raises IndexError.
GearExtendedDerive ==
    /\ pc = "derive"
    /\ pc' = "done"
    /\ node' = "Gear Extended"
    /\ LET slice_list == clump_unmasked(masked_equal(gear_down, GEAR_UP))
       IN  IF slice_list = <<>>
           THEN error' = IndexError /\ UNCHANGED phases
           ELSE phases' = trim_last(slice_list, Len(gear_down)) /\ UNCHANGED error
    /\ UNCHANGED gearVars
    /\ UNCHANGED notGear

\* GearRetracted.derive, lines 697-699.
GearRetractedDerive ==
    /\ pc = "derive"
    /\ pc' = "done"
    /\ node' = "Gear Retracted"
    /\ phases' = clump_unmasked(masked_equal(gear_down, GEAR_DOWN))
    /\ UNCHANGED error
    /\ UNCHANGED gearVars
    /\ UNCHANGED notGear

NextGear ==
    \/ GearExtendingDerive
    \/ GearRetractingDerive
    \/ GearExtendedDerive
    \/ GearRetractedDerive

\* ------------------------------------------------------ gear node inputs
IlsIdle ==
    /\ beam = "" /\ ils_dots = <<>> /\ height = <<>> /\ scan_slice = Slice(0, 0)
    /\ ils_lost_idx = 0 /\ ret = Running /\ returned_at = ""

GearSamples == {V(GEAR_UP), V(GEAR_DOWN)}
\* A warning signal reads Normal (0) or Warning (1); an invalid sample keeps
\* its data.
WarnSamples == {V(0), V(1), [v |-> 0, m |-> TRUE], [v |-> 1, m |-> TRUE]}
AllNormal(n) == [i \in 1..n |-> V(0)]
WarningAt(n, k) == [i \in 1..n |-> V(IF i = k THEN 1 ELSE 0)]

Slices(n) == {x \in [start : 0..(n - 1), stop : 1..n] : x.start < x.stop}
\* At most two airborne sections, in order and apart.
Airs(n) ==
    {<<>>} \cup {<<a>> : a \in Slices(n)}
           \cup {x \in Slices(n) \X Slices(n) : x[1].stop < x[2].start}

InitDerive ==
    /\ pc = "derive"
    /\ OutIdle
    /\ gear_moving = <<>>
    /\ IlsIdle
    /\ NodeIdle

\* No warning signal, or some of the three.
InitGear ==
    /\ gear_down \in Arrays(GearSamples, GearLen)
    /\ airs \in Airs(GearLen)
    /\ \/ /\ gear_warn_l = None /\ gear_warn_n = None /\ gear_warn_r = None
          /\ frame = None
          /\ frequency \in {1, 2}
       \/ /\ gear_warn_l \in {None, Some(AllNormal(GearLen))}
          /\ gear_warn_n \in {None, Some(AllNormal(GearLen))}
          /\ gear_warn_r \in {None, Some(AllNormal(GearLen))}
          /\ {gear_warn_l, gear_warn_n, gear_warn_r} = {None, Some(AllNormal(GearLen))}
          /\ frame \in {None, Some("737-3C")}
          /\ frequency = 1
    /\ InitDerive

SpecGear == InitGear /\ [][NextGear]_vars

\* The three warning signals.
InitGearWarn ==
    /\ gear_down \in Arrays(GearSamples, WarnLen)
    /\ airs \in {<<>>} \cup {<<a>> : a \in Slices(WarnLen)}
    /\ gear_warn_l \in {Some(a) : a \in Arrays(WarnSamples, WarnLen)}
    /\ gear_warn_n = Some(AllNormal(WarnLen))
    /\ gear_warn_r \in {Some(AllNormal(WarnLen)), Some(WarningAt(WarnLen, WarnLen))}
    /\ frame = Some("737-3C")
    /\ frequency = 1
    /\ InitDerive

SpecGearWarn == InitGearWarn /\ [][NextGear]_vars

\* ----------------------------------------------------- gear node claims
G_transit == node \in {"Gear Extending", "Gear Retracting"}
G_supplied == Cardinality({p \in {"l", "n", "r"} :
                  \/ p = "l" /\ Supplied(gear_warn_l)
                  \/ p = "n" /\ Supplied(gear_warn_n)
                  \/ p = "r" /\ Supplied(gear_warn_r)})
G_phase_set == {phases[k] : k \in 1..Len(phases)}
G_inside_air(p) == \E k \in 1..Len(airs) : airs[k].start <= p.start /\ p.stop <= airs[k].stop

\* C6: with one or two of the three warning signals supplied, GearExtending
\* and GearRetracting raise DataFrameError with the node name and the frame
\* name (none when the frame is absent) and create no phase.
C6_PartialWarningsRaise ==
    (pc = "done" /\ G_transit /\ G_supplied \in {1, 2}) =>
        /\ error = [type |-> "DataFrameError", name |-> node, frame |-> frame]
        /\ phases = <<>>

\* C6 witness: the nose and right signals alone, no frame.
C6_Witness ==
    /\ pc = "done" /\ node = "Gear Retracting"
    /\ ~Supplied(gear_warn_l) /\ Supplied(gear_warn_n) /\ Supplied(gear_warn_r)
    /\ frame = None
    /\ error.type = "DataFrameError"

G_warn == combined_warning(gear_warn_l[1], gear_warn_n[1], gear_warn_r[1])
G_first_valid == first_valid_sample(G_warn, 0, Len(G_warn))

\* C7 (as claimed): with the three warnings supplied the moving runs are the
\* odd-indexed runs of the combined signal when its first valid sample is
\* False and the even-indexed runs when it is True, and every moving run is
\* a run where a warning is active, also after leading invalid samples.
C7_MovingRunsAreWarnings ==
    (pc = "done" /\ G_transit /\ G_supplied = 3) =>
        /\ (G_first_valid # None /\ G_first_valid[2] = 0)
              => gear_moving = OddItems(_ezclump(G_warn))
        /\ (G_first_valid # None /\ G_first_valid[2] = 1)
              => gear_moving = EvenItems(_ezclump(G_warn))
        /\ \A k \in 1..Len(gear_moving) :
              \A i \in gear_moving[k].start..(gear_moving[k].stop - 1) :
                 ~At(G_warn, i).m => At(G_warn, i).v = 1

\* C8 (as claimed): with the three warnings supplied every phase lies inside
\* an airborne section and the gear state at the sample before its start
\* reads Up (GearExtending) or Down (GearRetracting); a phase that starts at
\* sample 0 has no sample before it.
C8_PriorSampleState ==
    (pc = "done" /\ G_transit /\ G_supplied = 3) =>
        \A p \in G_phase_set :
            /\ G_inside_air(p)
            /\ p.start >= 1
            /\ reads(At(gear_down, p.start - 1),
                     IF node = "Gear Extending" THEN GEAR_UP ELSE GEAR_DOWN)

\* The edges of the gear signal inside an airborne section: sample i reads
\* the new state and the sample before it the old one.
G_edges(old, new) ==
    {i \in 1..(Len(gear_down) - 1) :
        /\ At(gear_down, i - 1).v = old /\ At(gear_down, i).v = new
        /\ \E k \in 1..Len(airs) : airs[k].start < i /\ i < airs[k].stop}
G_windows(old, new) ==
    {Slice(i, i + GEAR_TRANSIT_SECONDS * frequency) : i \in G_edges(old, new)}

\* C9: with no warning signal GearExtending creates exactly one phase
\* [edge, edge + 5.0 * sample_rate) for every rising edge of the gear signal
\* inside an airborne section, GearRetracting for every falling edge, no
\* other phase, and neither raises.
C9_EdgeWindows ==
    (pc = "done" /\ G_transit /\ G_supplied = 0) =>
        LET want == IF node = "Gear Extending"
                    THEN G_windows(GEAR_UP, GEAR_DOWN)
                    ELSE G_windows(GEAR_DOWN, GEAR_UP)
        IN  /\ error = NoError
            /\ G_phase_set = want
            /\ Len(phases) = Cardinality(want)

\* C9 witness: two rising edges in two airborne sections at 2 Hz.
C9_Witness ==
    /\ pc = "done" /\ node = "Gear Extending" /\ G_supplied = 0
    /\ frequency = 2
    /\ Len(airs) = 2
    /\ Len(phases) = 2

\* The maximal runs of samples that read Down.
G_down_runs ==
    {x \in [start : 0..Len(gear_down), stop : 0..Len(gear_down)] :
        /\ x.start < x.stop
        /\ \A i \in x.start..(x.stop - 1) : reads(At(gear_down, i), GEAR_DOWN)
        /\ x.start = 0 \/ ~reads(At(gear_down, x.start - 1), GEAR_DOWN)
        /\ x.stop = Len(gear_down) \/ ~reads(At(gear_down, x.stop), GEAR_DOWN)}

\* C10 (as claimed): GearExtended produces the maximal runs of Down, the run
\* that ends with the recording cut by one sample, and with no Down at all it
\* produces no interval and does not fail.
C10_GearExtendedRuns ==
    (pc = "done" /\ node = "Gear Extended") =>
        /\ error = NoError
        /\ G_phase_set =
              {IF x.stop = Len(gear_down) THEN Slice(x.start, x.stop - 1) ELSE x :
                  x \in G_down_runs}
        /\ Len(phases) = Cardinality(G_down_runs)

\* The maximal runs of samples that read Up.
G_up_runs ==
    {x \in [start : 0..Len(gear_down), stop : 0..Len(gear_down)] :
        /\ x.start < x.stop
        /\ \A i \in x.start..(x.stop - 1) : reads(At(gear_down, i), GEAR_UP)
        /\ x.start = 0 \/ ~reads(At(gear_down, x.start - 1), GEAR_UP)
        /\ x.stop = Len(gear_down) \/ ~reads(At(gear_down, x.stop), GEAR_UP)}

\* C11 (as claimed): GearRetracted produces the maximal runs of Up, the run
\* that ends with the recording cut by one sample, so that no interval stops
\* at the length of the recording.
C11_GearRetractedRuns ==
    (pc = "done" /\ node = "Gear Retracted") =>
        /\ G_phase_set =
              {IF x.stop = Len(gear_down) THEN Slice(x.start, x.stop - 1) ELSE x :
                  x \in G_up_runs}
        /\ \A p \in G_phase_set : p.stop # Len(gear_down)

\* --------------------------------------------------- Takeoff and Landing
\* Samples in the arrays given to Takeoff and Landing.
RunwayLen == 5
\* Degrees of heading change taken as the turn onto and off the runway.
HEADING_TURN_ONTO_RUNWAY == 15
HEADING_TURN_OFF_RUNWAY == 15
\* Heights (ft) where the takeoff ends and the landing starts.
INITIAL_CLIMB_THRESHOLD == 35
LANDING_THRESHOLD_HEIGHT == 50
\* Seconds searched around the anchor: 300 at lines 1054, 1156 and 1171, 480
\* at line 1063.
FIVE_MINUTES == 300
EIGHT_MINUTES == 480

\* seconds * parameter.frequency: a count of samples, as a fractional index.
Seconds(s, f) == (s * f.num * Scale) \div f.den

\* np.ma.abs(head.array - datum)
deviation(a, datum) == [i \in 1..Len(a) |-> [v |-> Abs(a[i].v - datum), m |-> a[i].m]]

\* The truth value Python gives a number that may be None: None and 0 are false.
Truthy(x) == x # None /\ x[1] # 0

\* Takeoff.derive, lines 1146-1178: the phase of one fast section, if any.
takeoff_phase(speedy) ==
    LET takeoff_run == speedy.start[1]
        datum == At(head, takeoff_run).v
        first == Max2(0, takeoff_run * Scale - Seconds(FIVE_MINUTES, freq))
        found == index_at_value(deviation(head, datum), HEADING_TURN_ONTO_RUNWAY,
                                takeoff_run * Scale, first, -1)
        takeoff_begin == IF found = None THEN Some(first) ELSE found
        last == takeoff_run * Scale + Seconds(FIVE_MINUTES, freq)
        takeoff_end == index_at_value(alt_aal, INITIAL_CLIMB_THRESHOLD,
                                      takeoff_run * Scale, last, 1)
    IN  IF Truthy(takeoff_begin) /\ Truthy(takeoff_end)
        THEN <<Slice(takeoff_begin, takeoff_end)>>
        ELSE <<>>

RECURSIVE takeoff_phases(_)
\* Takeoff.derive, lines 1135-1142: the loop over the fast sections, left at
\* the first section whose start is None.
takeoff_phases(sections) ==
    IF sections = <<>> \/ Head(sections).start = None
    THEN <<>>
    ELSE takeoff_phase(Head(sections)) \o takeoff_phases(Tail(sections))

\* Landing.derive, lines 1051-1074: the phase of one fast section.
landing_phase(speedy) ==
    LET landing_run == speedy.stop[1]
        datum == At(head, landing_run).v
        first == landing_run * Scale - Seconds(FIVE_MINUTES, freq)
        landing_begin == index_at_value(alt_aal, LANDING_THRESHOLD_HEIGHT,
                                        first, landing_run * Scale, 1)
        last == landing_run * Scale + Seconds(EIGHT_MINUTES, freq)
        found == index_at_value(deviation(head, datum), HEADING_TURN_OFF_RUNWAY,
                                landing_run * Scale, last, 1)
        landing_end == IF found = None THEN Some((Len(head) - 1) * Scale) ELSE found
    IN  <<Slice(landing_begin, landing_end)>>

RECURSIVE landing_phases(_)
\* Landing.derive, lines 1041-1049: the loop over the fast sections, left at
\* the first section whose stop is None or not before the end of the data.
landing_phases(sections) ==
    IF sections = <<>> THEN <<>>
    ELSE IF Head(sections).stop = None \/ Head(sections).stop[1] >= Len(alt_aal)
         THEN <<>>
         ELSE landing_phase(Head(sections)) \o landing_phases(Tail(sections))

\* Takeoff.derive, lines 1127-1178.
TakeoffDerive ==
    /\ pc = "derive"
    /\ pc' = "done"
    /\ node' = "Takeoff"
    /\ phases' = takeoff_phases(fast)
    /\ UNCHANGED <<error, ilsVars, gearVars, nodeVars>>

\* Landing.derive, lines 1038-1074.
LandingDerive ==
    /\ pc = "derive"
    /\ pc' = "done"
    /\ node' = "Landing"
    /\ phases' = landing_phases(fast)
    /\ UNCHANGED <<error, ilsVars, gearVars, nodeVars>>

NextRunway == TakeoffDerive \/ LandingDerive

\* ------------------------------------------- Takeoff and Landing inputs
\* A run of fast samples [start, stop) as Fast reports it: an end is None
\* when the airspeed there is far above the threshold (lines 566-569).
FastSection(x, no_start, no_stop) ==
    Slice(IF no_start THEN None ELSE Some(x.start),
          IF no_stop THEN None ELSE Some(x.stop))
\* The aircraft is at rest at sample 0: a run of fast samples starts later.
\* A run of one sample cannot have its start set and its stop None (the same
\* airspeed would be within 20 kt of the threshold and more than 30 kt off).
FastRuns(n) ==
    {t \in [run : {x \in Slices(n) : x.start >= 1}, no_start : BOOLEAN, no_stop : BOOLEAN] :
        t.run.stop - t.run.start = 1 => ~(~t.no_start /\ t.no_stop)}
\* No fast section, one, or two apart.
Fasts(n) ==
    {<<>>}
    \cup {<<FastSection(t.run, t.no_start, t.no_stop)>> : t \in FastRuns(n)}
    \cup {<<FastSection(y[1].run, y[1].no_start, y[1].no_stop),
            FastSection(y[2].run, y[2].no_start, y[2].no_stop)>> :
            y \in {x \in FastRuns(n) \X FastRuns(n) : x[1].run.stop < x[2].run.start}}

\* Heading along the runway (0) or turned away from it (20 degrees).
HeadSamples == {V(0), V(20)}
\* On the ground or 100 ft above it.
AltSamples == {V(0), V(100)}
\* One sample a second, or one every 150 seconds (five minutes = 2 samples).
Rates == {OneHertz, [num |-> 1, den |-> 150]}

InitNode ==
    /\ pc = "derive"
    /\ OutIdle
    /\ IlsIdle
    /\ GearIdle
    /\ NoDerived
    /\ NoEvents

InitRunway ==
    /\ head \in Arrays(HeadSamples, RunwayLen)
    /\ alt_aal \in Arrays(AltSamples, RunwayLen)
    /\ fast \in Fasts(RunwayLen)
    /\ freq \in Rates
    /\ NoSections /\ NoTurns
    /\ WalkIdle
    /\ InitNode

SpecRunway == InitRunway /\ [][NextRunway]_vars

\* ------------------------------------------- Takeoff and Landing claims
\* What the claim says of the anchor at sample a: the altitude crossing in the
\* five minutes after it, the five-minute boundary before it and the turn
\* onto the runway found between the two.
T_end(a) ==
    index_at_value(alt_aal, INITIAL_CLIMB_THRESHOLD, a * Scale,
                   a * Scale + Seconds(FIVE_MINUTES, freq), 1)
T_boundary(a) == Max2(0, a * Scale - Seconds(FIVE_MINUTES, freq))
T_turn(a) ==
    index_at_value(deviation(head, At(head, a).v), HEADING_TURN_ONTO_RUNWAY,
                   a * Scale, T_boundary(a), -1)
T_claimed(a) ==
    IF T_end(a) = None
    THEN <<>>
    ELSE <<Slice(IF T_turn(a) = None THEN Some(T_boundary(a)) ELSE T_turn(a),
                 T_end(a))>>

\* C12 (as claimed): for each fast interval with a set start Takeoff creates
\* exactly one phase if and only if altitude crosses the initial-climb
\* threshold within five minutes after the anchor; the phase ends at that
\* crossing and starts at the turn onto the runway found backward within five
\* minutes, or at the five-minute boundary when there is no turn, sample 0
\* included.
C12_TakeoffPerAnchor ==
    (pc = "done" /\ node = "Takeoff") =>
        phases = Flatten([k \in 1..Len(fast) |->
                             IF fast[k].start = None
                             THEN <<>>
                             ELSE T_claimed(fast[k].start[1])])

\* What the claim says of the anchor at sample a: the altitude crossing in the
\* five minutes before it and the turn off the runway in the eight minutes
\* after it.
L_begin(a) ==
    index_at_value(alt_aal, LANDING_THRESHOLD_HEIGHT,
                   a * Scale - Seconds(FIVE_MINUTES, freq), a * Scale, 1)
L_turn(a) ==
    index_at_value(deviation(head, At(head, a).v), HEADING_TURN_OFF_RUNWAY,
                   a * Scale, a * Scale + Seconds(EIGHT_MINUTES, freq), 1)
L_claimed(a) ==
    <<Slice(L_begin(a),
            IF L_turn(a) = None THEN Some((Len(head) - 1) * Scale) ELSE L_turn(a))>>
L_anchored(section) == section.stop # None /\ section.stop[1] < Len(alt_aal)

\* C13 (as claimed): for every fast interval whose end is set and lies before
\* the end of the data Landing creates exactly one phase, whatever the other
\* fast intervals are; it starts at the altitude crossing found in the five
\* minutes before the anchor and ends at the turn off the runway found in the
\* eight minutes after it, or at the last sample of the data.
C13_LandingPerAnchor ==
    (pc = "done" /\ node = "Landing") =>
        phases = Flatten([k \in 1..Len(fast) |->
                             IF L_anchored(fast[k])
                             THEN L_claimed(fast[k].stop[1])
                             ELSE <<>>])

\* ---------------------------------------------------- ClimbCruiseDescent
\* Samples in the altitude given to ClimbCruiseDescent.
CcdLen == 5
\* Smallest rise or fall (ft) the cycle finder reports to ClimbCruiseDescent.
HYSTERESIS_FPALT_CCD == 500

\* slice.start or 0, and the stop of array[slice].
StartOr0(section) == IF section.start = None THEN 0 ELSE section.start[1]
StopOrLen(section, len) == IF section.stop = None THEN len ELSE Min2(section.stop[1], len)

\* Peaks and troughs follow one another, each step at least min_step.
Alternates(vals, min_step) ==
    /\ \A k \in 1..(Len(vals) - 1) : Abs(vals[k + 1] - vals[k]) >= min_step
    /\ \A k \in 1..(Len(vals) - 2) :
          (vals[k + 1] - vals[k]) * (vals[k + 2] - vals[k + 1]) < 0

\* cycle_finder(array[lo:hi], min_step): the indices (into the sliced array)
\* and values of alternating peaks and troughs whose steps are not below
\* min_step, or (None, None).  Which of the samples it reports is left open.
cycle_finder(array, lo, hi, min_step) ==
    LET cycles(S) == [idxs |-> Sorted(S),
                      vals |-> [k \in 1..Cardinality(S) |-> At(array, lo + Sorted(S)[k]).v]]
    IN  {None} \cup
        {cycles(S) : S \in {T \in SUBSET (0..(hi - lo - 1)) :
                              /\ T # {}
                              /\ \A i \in T : ~At(array, lo + i).m
                              /\ Alternates(cycles(T).vals, min_step)}}

\* A walk that moves on by one extremum after a climb and descent.
walk_by_one(i, idxs, vals) ==
    IF At(vals, i + 1) < At(vals, i)
    THEN [created |-> <<Slice(None, Some(At(idxs, i + 1)))>>, n |-> i + 1]
    ELSE IF i + 2 < Len(vals)
         THEN IF At(vals, i + 2) < At(vals, i + 1)
              THEN [created |-> <<Slice(Some(At(idxs, i)), Some(At(idxs, i + 2)))>>,
                    n |-> i + 1]
              ELSE [created |-> <<>>, n |-> i]
         ELSE [created |-> <<Slice(Some(At(idxs, i)), None)>>, n |-> i + 1]

\* Lines 318-336: one pass of the while loop at position i: the phase it
\* creates, if any, and the next position.
walk(i, idxs, vals) ==
    IF At(vals, i + 1) < At(vals, i)
    THEN [created |-> <<Slice(None, Some(At(idxs, i + 1)))>>, n |-> i + 1]
    ELSE IF i + 2 < Len(vals)
         THEN IF At(vals, i + 2) < At(vals, i + 1)
              THEN [created |-> <<Slice(Some(At(idxs, i)), Some(At(idxs, i + 2)))>>,
                    n |-> i + 2]
              ELSE [created |-> <<>>, n |-> i]
         ELSE [created |-> <<Slice(Some(At(idxs, i)), None)>>, n |-> i + 1]

\* Line 315: pk_idxs += air.slice.start or 0
whole_flight(idxs, air) == [k \in 1..Len(idxs) |-> idxs[k] + StartOr0(air)]

\* ClimbCruiseDescent.derive, lines 309-316: the next airborne section and
\* its extrema.
CcdForAir ==
    /\ pc = "for_air"
    /\ node' = "Climb Cruise Descent"
    /\ IF reached > Len(airborne)
       THEN pc' = "done" /\ UNCHANGED <<reached, pk_idxs, pk_vals, pk_n>>
       ELSE LET air == airborne[reached]
            IN  \E c \in cycle_finder(alt_aal, StartOr0(air),
                                      StopOrLen(air, Len(alt_aal)),
                                      HYSTERESIS_FPALT_CCD) :
                   IF c = None
                   THEN /\ reached' = reached + 1
                        /\ pk_idxs' = None
                        /\ pk_vals' = None
                        /\ UNCHANGED <<pc, pk_n>>
                   ELSE /\ pk_idxs' = whole_flight(c.idxs, air)
                        /\ pk_vals' = c.vals
                        /\ pk_n' = 0
                        /\ pc' = "while"
                        /\ UNCHANGED reached
    /\ UNCHANGED <<phases, error, warned, argVars>>
    /\ UNCHANGED <<ilsVars, gearVars>>

\* ClimbCruiseDescent.derive, lines 317-336: one pass of the while loop, or
\* its end.
CcdWhile ==
    /\ pc = "while"
    /\ IF pk_n < Len(pk_vals) - 1
       THEN /\ phases' = phases \o walk(pk_n, pk_idxs, pk_vals).created
            /\ pk_n' = walk(pk_n, pk_idxs, pk_vals).n
            /\ UNCHANGED <<pc, reached>>
       ELSE /\ pc' = "for_air"
            /\ reached' = reached + 1
            /\ UNCHANGED <<phases, pk_n>>
    /\ UNCHANGED <<node, error, warned, pk_idxs, pk_vals, argVars>>
    /\ UNCHANGED <<ilsVars, gearVars>>

NextCcd == CcdForAir \/ CcdWhile

\* ---------------------------------------------- ClimbCruiseDescent inputs
\* An airborne section [start, stop) as Airborne reports it: an end is None
\* when it is the start or the end of the data (lines 93-97).
AirSection(x, len) ==
    Slice(IF x.start = 0 THEN None ELSE Some(x.start),
          IF x.stop >= len THEN None ELSE Some(x.stop))
\* No airborne section, one, or two apart.
Airbornes(len) ==
    {<<>>}
    \cup {<<AirSection(x, len)>> : x \in Slices(len)}
    \cup {<<AirSection(y[1], len), AirSection(y[2], len)>> :
            y \in {x \in Slices(len) \X Slices(len) : x[1].stop < x[2].start}}

\* On the ground, 400 ft or 5000 ft above it.
CcdSamples == {V(0), V(400), V(5000)}

InitCcd ==
    /\ pc = "for_air"
    /\ OutIdle /\ IlsIdle /\ GearIdle /\ NoDerived /\ NoEvents
    /\ NoRunway /\ NoTurns /\ freq = OneHertz
    /\ alt_aal \in Arrays(CcdSamples, CcdLen)
    /\ airborne \in Airbornes(CcdLen)
    /\ gas = <<>> /\ apps = <<>> /\ lands = <<>>
    /\ WalkIdle

SpecCcd == InitCcd /\ [][NextCcd]_vars

\* ---------------------------------------------- ClimbCruiseDescent claims
\* Extremum i of the walk under way (i counts from 0) and its index.
W_val(i) == At(pk_vals, i)
W_idx(i) == At(pk_idxs, i)
W_air == airborne[reached]
W_walking == pc = "while" /\ pk_n < Len(pk_vals) - 1

\* C14: in the walk over the extrema of an airborne interval a decrease from
\* extremum n to n+1 creates a phase with unset start that ends at n+1 and
\* moves to n+1; an increase followed by a decrease creates a phase from n to
\* n+2 and moves to n+2; an increase to the last extremum creates a phase
\* from n with unset stop; the indices are whole-flight indices; no phase is
\* created when the cycle finder returns nothing.
C14_WalkSteps ==
    [][/\ (W_walking /\ W_val(pk_n + 1) < W_val(pk_n)) =>
             /\ phases' = Append(phases, Slice(None, Some(W_idx(pk_n + 1))))
             /\ pk_n' = pk_n + 1
       /\ (W_walking /\ W_val(pk_n + 1) > W_val(pk_n) /\ pk_n + 2 < Len(pk_vals)
                     /\ W_val(pk_n + 2) < W_val(pk_n + 1)) =>
             /\ phases' = Append(phases, Slice(Some(W_idx(pk_n)), Some(W_idx(pk_n + 2))))
             /\ pk_n' = pk_n + 2
       /\ (W_walking /\ W_val(pk_n + 1) > W_val(pk_n) /\ pk_n + 2 = Len(pk_vals)) =>
             phases' = Append(phases, Slice(Some(W_idx(pk_n)), None))
       /\ (pc = "for_air" /\ pc' = "while") =>
             \A k \in 1..Len(pk_idxs') :
                /\ StartOr0(W_air) <= pk_idxs'[k]
                /\ pk_idxs'[k] < StopOrLen(W_air, Len(alt_aal))
                /\ At(alt_aal, pk_idxs'[k]).v = pk_vals'[k]
       /\ (pc = "for_air" /\ pc' # "while") => phases' = phases
      ]_vars

\* C14 witness: an airborne interval from sample 1 to the end of the data
\* with extrema low, high, low, high: a climb and descent, then an open climb.
C14_Witness ==
    /\ pc = "done" /\ node = "Climb Cruise Descent"
    /\ airborne = <<Slice(Some(1), None)>>
    /\ phases = <<Slice(Some(1), Some(3)), Slice(Some(3), None)>>

\* One airborne interval whose every sample is a turning point of a sawtooth
\* with steps of at least the minimum step, all of them reported.
W_sawtooth ==
    /\ pc = "done" /\ node = "Climb Cruise Descent"
    /\ Len(airborne) = 1
    /\ Len(pk_idxs) = StopOrLen(airborne[1], Len(alt_aal)) - StartOr0(airborne[1])
W_falls == Cardinality({k \in 1..(Len(pk_vals) - 1) : pk_vals[k + 1] < pk_vals[k]})
W_ends_rising == Len(pk_vals) >= 2 /\ pk_vals[Len(pk_vals)] > pk_vals[Len(pk_vals) - 1]

C16_UnsetEndsAtBoundary ==
    [][(pc = "while" /\ phases' # phases) =>
          LET p == phases'[Len(phases')]
          IN  /\ p.start = None => (W_air.start = None /\ pk_n = 0)
              /\ p.stop = None => (W_air.stop = None /\ pk_n' = Len(pk_vals) - 1)
      ]_vars

\* ------------------------------------------------------- DescentLowClimb
\* Samples in the altitude given to DescentLowClimb.
DlcLen == 5
\* Height (ft) below which an approach is looked for.
INITIAL_APPROACH_THRESHOLD == 3000
\* Height (ft) a descent and the climb after it must exceed.
DESCENT_LOW_CLIMB_THRESHOLD == 500

\* np.ma.masked_greater(a, x)
masked_greater(a, x) == [i \in 1..Len(a) |-> [v |-> a[i].v, m |-> a[i].m \/ a[i].v > x]]

\* shift_slice(slice, offset): both ends moved by offset, a None end kept.
shift_slice(s, offset) ==
    Slice(IF s.start = None THEN None ELSE Some(s.start[1] + offset),
          IF s.stop = None THEN None ELSE Some(s.stop[1] + offset))

\* The test of lines 527-528 with "at least" for "more than".
dip_or_equal(before, low, after) ==
    /\ before - low >= DESCENT_LOW_CLIMB_THRESHOLD
    /\ after - low >= DESCENT_LOW_CLIMB_THRESHOLD
\* Lines 527-528: the extremum is a low point between two higher ones.
dip(before, low, after) ==
    /\ before - low > DESCENT_LOW_CLIMB_THRESHOLD
    /\ after - low > DESCENT_LOW_CLIMB_THRESHOLD

\* Lines 524-531: the phases of one run, in the order of the extrema.
low_climbs(idxs, vals, offset) ==
    LET found == SelectSeq([k \in 1..(Len(vals) - 2) |-> k],
                           LAMBDA k : dip(vals[k], vals[k + 1], vals[k + 2]))
    IN  [j \in 1..Len(found) |->
            shift_slice(Slice(Some(idxs[found[j]]), Some(idxs[found[j] + 2])), offset)]

\* DescentLowClimb.derive, lines 519-531: the next run of altitude at or
\* below the threshold, its extrema and its phases.
DlcForRun ==
    /\ pc = "for_dlc"
    /\ node' = "Descent Low Climb"
    /\ LET dlc == masked_greater(alt_aal, INITIAL_APPROACH_THRESHOLD)
           runs == clump_unmasked(dlc)
       IN  IF reached > Len(runs)
           THEN pc' = "done" /\ UNCHANGED <<reached, pk_idxs, pk_vals, phases>>
           ELSE LET this_dlc == runs[reached]
                IN  \E c \in cycle_finder(dlc, this_dlc.start, this_dlc.stop,
                                          DESCENT_LOW_CLIMB_THRESHOLD) :
                       /\ reached' = reached + 1
                       /\ pc' = pc
                       /\ IF c = None
                          THEN pk_idxs' = None /\ pk_vals' = None /\ UNCHANGED phases
                          ELSE /\ pk_idxs' = c.idxs
                               /\ pk_vals' = c.vals
                               /\ phases' = phases \o low_climbs(c.idxs, c.vals,
                                                                 this_dlc.start)
    /\ UNCHANGED <<error, warned, pk_n, argVars>>
    /\ UNCHANGED <<ilsVars, gearVars>>

\* On the ground, 500 ft, 3000 ft or 3500 ft above it, or invalid.
DlcSamples == {V(0), V(500), V(3000), V(3500), Masked}

InitDlc ==
    /\ pc = "for_dlc"
    /\ OutIdle /\ IlsIdle /\ GearIdle /\ NoDerived /\ NoEvents
    /\ NoRunway /\ NoSections /\ NoTurns /\ freq = OneHertz
    /\ alt_aal \in Arrays(DlcSamples, DlcLen)
    /\ WalkIdle

SpecDlc == InitDlc /\ [][DlcForRun]_vars

\* ------------------------------------------------ DescentLowClimb claims
\* The maximal runs of valid altitude not above the threshold.
D_runs ==
    LET low(i) == ~At(alt_aal, i).m /\ At(alt_aal, i).v <= INITIAL_APPROACH_THRESHOLD
    IN  {x \in Slices(Len(alt_aal)) :
            /\ \A i \in x.start..(x.stop - 1) : low(i)
            /\ x.start = 0 \/ ~low(x.start - 1)
            /\ x.stop = Len(alt_aal) \/ ~low(x.stop)}
\* The run the loop has reached: the one with `reached - 1` runs before it.
D_this == CHOOSE x \in D_runs : Cardinality({y \in D_runs : y.start < x.start}) = reached - 1
\* The interior extrema (counted from 1) the claim makes phases of.
D_lows(vals) ==
    {k \in 2..(Len(vals) - 1) :
        /\ vals[k - 1] > vals[k] + DESCENT_LOW_CLIMB_THRESHOLD
        /\ vals[k + 1] > vals[k] + DESCENT_LOW_CLIMB_THRESHOLD}

\* C17: for each valid run of altitude not above the initial-approach
\* threshold DescentLowClimb creates a phase exactly for each interior
\* extremum of the run's cycles with the extremum before it and the one after
\* it more than DESCENT_LOW_CLIMB_THRESHOLD above it, from the extremum before
\* to the extremum after in whole-flight indices; fewer than three extrema
\* give no phase.
C17_LowClimbPhases ==
    [][(pc = "for_dlc" /\ reached <= Cardinality(D_runs)) =>
          /\ Len(phases') = Len(phases) + Cardinality(D_lows(pk_vals'))
          /\ SubSeq(phases', 1, Len(phases)) = phases
          /\ {phases'[j] : j \in (Len(phases) + 1)..Len(phases')}
                = {Slice(Some(D_this.start + pk_idxs'[k - 1]),
                         Some(D_this.start + pk_idxs'[k + 1])) :
                      k \in D_lows(pk_vals')}
          /\ Len(pk_vals') < 3 => phases' = phases
      ]_vars

\* C17 witness: a run that starts at sample 1 with extrema 3000, 0, 3000.
C17_Witness ==
    /\ pc = "done" /\ node = "Descent Low Climb"
    /\ At(alt_aal, 0).m
    /\ pk_vals = <<3000, 0, 3000>>
    /\ phases = <<Slice(Some(pk_idxs[1] + 1), Some(pk_idxs[3] + 1))>>

\* --------------------------------------------------- GoAroundAndClimbout
\* Samples in the altitude given to GoAroundAndClimbout.
GaLen == 5
\* Smallest rise or fall (ft) of the cycles looked for, line 119.
GA_MIN_STEP == 500
\* Samples within which the cycle of a go-around is looked for, line 129.
GA_MATCH_DIST == 20
\* Height gained (ft) where the phase starts and stops, lines 143 and 149.
GA_BEFORE == 500
GA_AFTER == 2000

\* math.ceil of a fractional index.
Ceil(x) == (x + Scale - 1) \div Scale

\* cycle_match(idx, cycle_idxs, dist): the extrema that bracket idx, the
\* nearest before it and the nearest after it, None where there is none.
cycle_match(idx, cycle_idxs, dist) ==
    LET before == {c \in {cycle_idxs[k] : k \in 1..Len(cycle_idxs)} : c < idx}
        after == {c \in {cycle_idxs[k] : k \in 1..Len(cycle_idxs)} : c > idx}
    IN  <<IF before = {} THEN None ELSE Some(SetMax(before)),
          IF after = {} THEN None ELSE Some(SetMin(after))>>

\* closest_unmasked_value(array, index, slice(start, stop)): the valid sample
\* of the slice nearest to index, as <<index, value>>; either of two equally
\* near.
closest_unmasked_value(array, index, start, stop) ==
    LET S == ValidIdx(array, IF start = None THEN 0 ELSE start[1],
                      IF stop = None THEN Len(array) ELSE stop[1])
    IN  {<<i, At(array, i).v>> : i \in {j \in S : \A k \in S : Abs(j - index) <= Abs(k - index)}}

\* index_at_value_or_level_off(array, value, _slice): a fractional index of
\* the range the slice scans.  Where in the range the crossing or the
\* level-off lies is left open.
index_at_value_or_level_off(array, value, _slice) ==
    LET from == _slice.start[1]
        to == IF _slice.stop # None THEN _slice.stop[1]
              ELSE IF _slice.step = 1 THEN Len(array) ELSE 0
    IN  {x \in (Min2(from, to) * Scale)..(Max2(from, to) * Scale) : x % (Scale \div 2) = 0}

\* Line 141: work backwards towards the previous peak.
start_slice(index, prev_idx) == [start |-> Some(index), stop |-> prev_idx, step |-> -1]
\* A forward search that does not stop at the next peak.
stop_slice_to_end(index, post_idx) == [start |-> Some(index), stop |-> None, step |-> 1]
\* Line 145: look forwards towards the next peak.
stop_slice(index, post_idx) == [start |-> Some(index), stop |-> post_idx, step |-> 1]

\* The go-around events are low points of the cycles found: every event is an
\* extremum with a higher extremum before it and one after it.
low_points(c, events) ==
    /\ c # None
    /\ \A j \in 1..Len(events) :
          \E k \in 2..(Len(c.idxs) - 1) :
             /\ c.idxs[k] = events[j]
             /\ c.vals[k - 1] > c.vals[k]
             /\ c.vals[k + 1] > c.vals[k]

\* GoAroundAndClimbout.derive, lines 119-126.
GaCycles ==
    /\ pc = "cycles"
    /\ node' = "Go Around And Climbout"
    /\ \E c \in cycle_finder(alt_aal, 0, Len(alt_aal), GA_MIN_STEP) :
          /\ low_points(c, gas)
          /\ pk_idxs' = c.idxs
          /\ pk_vals' = c.vals
    /\ pc' = "for_ga"
    /\ UNCHANGED <<phases, error, warned, reached, pk_n, argVars>>
    /\ UNCHANGED <<ilsVars, gearVars>>

\* GoAroundAndClimbout.derive, lines 127-151: the phase of the next event.
GaForEvent ==
    /\ pc = "for_ga"
    /\ IF reached > Len(gas)
       THEN pc' = "done" /\ UNCHANGED <<phases, reached>>
       ELSE LET ga_idx == gas[reached]
                prev_idx == cycle_match(ga_idx, pk_idxs, GA_MATCH_DIST)[1]
                post_idx == cycle_match(ga_idx, pk_idxs, GA_MATCH_DIST)[2]
            IN  \E closest \in closest_unmasked_value(alt_aal, ga_idx, prev_idx, post_idx) :
                   LET index == closest[1]
                       value == closest[2]
                   IN  \E ga_start \in index_at_value_or_level_off(
                                           alt_aal, value + GA_BEFORE,
                                           start_slice(index, prev_idx)),
                          ga_stop \in index_at_value_or_level_off(
                                          alt_aal, value + GA_AFTER,
                                          stop_slice(index, post_idx)) :
                          /\ phases' = Append(phases, Slice(Some(Trunc(ga_start)),
                                                            Some(Ceil(ga_stop))))
                          /\ reached' = reached + 1
                          /\ pc' = pc
    /\ UNCHANGED <<node, error, warned, pk_idxs, pk_vals, pk_n, argVars>>
    /\ UNCHANGED <<ilsVars, gearVars>>

NextGa == GaCycles \/ GaForEvent

\* On the ground, 1000 ft above it, or invalid.
GaSamples == {V(0), V(1000), Masked}
\* No go-around, one, or two in order.
GoArounds(len) ==
    {<<>>} \cup {<<i>> : i \in 0..(len - 1)}
           \cup {x \in (0..(len - 1)) \X (0..(len - 1)) : x[1] < x[2]}

InitGa ==
    /\ pc = "cycles"
    /\ OutIdle /\ IlsIdle /\ GearIdle /\ NoDerived /\ NoEvents
    /\ NoRunway /\ NoTurns /\ freq = OneHertz
    /\ airborne = <<>> /\ apps = <<>> /\ lands = <<>>
    /\ alt_aal \in Arrays(GaSamples, GaLen)
    /\ gas \in GoArounds(GaLen)
    /\ \E c \in cycle_finder(alt_aal, 0, GaLen, GA_MIN_STEP) : low_points(c, gas)
    /\ WalkIdle

SpecGa == InitGa /\ [][NextGa]_vars

\* ------------------------------------------- GoAroundAndClimbout claims
\* The cycle peaks that bracket event k.
E_prev(k) == SetMax({c \in {pk_idxs[j] : j \in 1..Len(pk_idxs)} : c < gas[k]})
E_next(k) == SetMin({c \in {pk_idxs[j] : j \in 1..Len(pk_idxs)} : c > gas[k]})

\* C18: GoAroundAndClimbout creates exactly one phase for every Go Around
\* event, confined to the cycle peaks that bracket the event: previous peak
\* <= phase start <= low point <= phase stop <= next peak, the start
\* truncated to an integer and the stop rounded up.
C18_PhaseBetweenPeaks ==
    (pc = "done" /\ node = "Go Around And Climbout") =>
        /\ Len(phases) = Len(gas)
        /\ \A k \in 1..Len(gas) :
              /\ E_prev(k) <= phases[k].start[1]
              /\ phases[k].start[1] <= gas[k]
              /\ gas[k] <= phases[k].stop[1]
              /\ phases[k].stop[1] <= E_next(k)

\* C18 witness: two go-arounds, the phase of the second starts at the peak
\* between them and stops at the peak after it.
C18_Witness ==
    /\ pc = "done" /\ node = "Go Around And Climbout"
    /\ Len(gas) = 2
    /\ phases[2] = Slice(Some(E_prev(2)), Some(E_next(2)))
    /\ phases[1].stop[1] = E_next(1)

\* ---------------------------------------------------------------- Holding
\* Samples in the parameters given to Holding.
HoldLen == 5
\* The height band (ft) in which holding is looked for, line 170.
HOLD_BAND_TOP == 20000
HOLD_BAND_BOTTOM == 3000
\* Turn rate (tenths of a degree per second) of a turn, line 177.
HOLD_TURN_RATE == 5
\* Shortest hold (s) and highest average groundspeed (kt) of a hold.
HOLDING_MIN_TIME == 240
HOLDING_MAX_GSPD == 60
\* Metres per second in a knot, in millionths.
KTS_TO_MPS == 514444
\* HOLDING_MAX_GSPD in millimetres per second, the fraction dropped.
max_gspd == (HOLDING_MAX_GSPD * KTS_TO_MPS) \div 1000

\* np.ma.masked_less(a, x)
masked_less(a, x) == [i \in 1..Len(a) |-> [v |-> a[i].v, m |-> a[i].m \/ a[i].v < x]]

\* slices_from_to(array, 20000, 3000): the runs of valid samples inside the
\* band.
slices_from_to(array, from, to) ==
    clump_unmasked([i \in 1..Len(array) |->
        [v |-> array[i].v,
         m |-> array[i].m \/ array[i].v > from \/ array[i].v < to]])

\* array[band]
Section(array, band) == SubSeq(array, band.start + 1, band.stop)

\* shift_slices(slices, offset)
shift_slices(slices, offset) ==
    [k \in 1..Len(slices) |-> Slice(slices[k].start + offset, slices[k].stop + offset)]

\* bearing_and_distance between two positions on one meridian, given in
\* metres north of a datum: the distance (m).
hold_distance(lat1, lat2) == Abs(lat2 - lat1)

\* Lines 184-185: the length of the run against the shortest hold.
long_enough(turn_band, rate) ==
    LET hold_sec == turn_band.stop - turn_band.start
    IN  hold_sec * rate.den > HOLDING_MIN_TIME * rate.num

\* Lines 184-191: hold_dist / KTS_TO_MPS / hold_sec < HOLDING_MAX_GSPD, with
\* hold_sec the length of the run as line 184 computes it; both sides in
\* millimetres per second times hold_sec.
slow_enough(turn_band, pos) ==
    LET hold_sec == turn_band.stop - turn_band.start
        start == turn_band.start
        stop == turn_band.stop - 1
        hold_dist == hold_distance(At(pos, start), At(pos, stop))
    IN  hold_dist * 1000 < max_gspd * hold_sec

\* Lines 176-192: the holds of one height band.
hold_bands(height_band) ==
    LET turn_bands == clump_unmasked(
                          masked_less(Section(turn_rate, height_band), HOLD_TURN_RATE))
    IN  SelectSeq(shift_slices(turn_bands, height_band.start),
                  LAMBDA turn_band : /\ long_enough(turn_band, freq)
                                     /\ slow_enough(turn_band, lat))

\* Holding.derive, lines 170-194.
HoldingDerive ==
    /\ pc = "derive"
    /\ node' = "Holding"
    /\ LET height_bands == slices_from_to(alt_aal, HOLD_BAND_TOP, HOLD_BAND_BOTTOM)
       IN  phases' = Flatten([k \in 1..Len(height_bands) |-> hold_bands(height_bands[k])])
    /\ pc' = "done"
    /\ UNCHANGED <<error, ilsVars, gearVars, nodeVars>>

\* Below the band or inside it.
HoldAlts == {V(2000), V(5000)}
\* Turning at 0.3 or at 0.8 degrees per second.
HoldTurns == {V(3), V(8)}
\* At the fix or 6 km north of it.
HoldPositions == {0, 6000}
\* One sample a minute or one every two minutes.
HoldRates == {[num |-> 1, den |-> 60], [num |-> 1, den |-> 120]}

InitHold ==
    /\ pc = "derive"
    /\ OutIdle /\ IlsIdle /\ GearIdle /\ NoDerived /\ NoEvents
    /\ NoRunway /\ NoSections /\ WalkIdle
    /\ alt_aal \in Arrays(HoldAlts, HoldLen)
    /\ turn_rate \in Arrays(HoldTurns, HoldLen)
    /\ lat \in Arrays(HoldPositions, HoldLen)
    /\ freq \in HoldRates

SpecHold == InitHold /\ [][HoldingDerive]_vars

\* ---------------------------------------------------------- Holding claims
\* The runs of turn rate of at least 0.5 degrees per second inside the band.
H_runs ==
    {r \in Slices(HoldLen) :
        /\ \A i \in r.start..(r.stop - 1) :
              /\ At(turn_rate, i).v >= HOLD_TURN_RATE
              /\ At(alt_aal, i).v >= HOLD_BAND_BOTTOM
              /\ At(alt_aal, i).v <= HOLD_BAND_TOP
        /\ \A i \in {r.start - 1, r.stop} :
              i \in 0..(HoldLen - 1) =>
                 \/ At(turn_rate, i).v < HOLD_TURN_RATE
                 \/ At(alt_aal, i).v < HOLD_BAND_BOTTOM
                 \/ At(alt_aal, i).v > HOLD_BAND_TOP}
\* The duration of a run (s) is its samples over the sample rate.
H_longer(r) == (r.stop - r.start) * freq.den > HOLDING_MIN_TIME * freq.num
\* Distance between the end points over the duration, below the ceiling.
H_slower(r) ==
    hold_distance(At(lat, r.start), At(lat, r.stop - 1)) * 1000 * freq.num
        < max_gspd * (r.stop - r.start) * freq.den

\* C19: at every sample rate Holding keeps exactly the runs of turn rate
\* inside the height band that last more than HOLDING_MIN_TIME seconds and
\* whose distance between the end points divided by the duration in seconds
\* is below HOLDING_MAX_GSPD.
C19_HoldingRuns ==
    (pc = "done" /\ node = "Holding") =>
        {phases[k] : k \in 1..Len(phases)} = {r \in H_runs : H_longer(r) /\ H_slower(r)}

\* --------------------------------------------------------------- Approach
\* Samples of the flight in which approaches and landings lie.
ApprLen == 5

\* The positions a slice covers, an unset start read as the first sample.
Positions(s) == StartOr0(s)..(s.stop[1] - 1)
Covered(slices) == UNION {Positions(slices[k]) : k \in 1..Len(slices)}

\* slices_and(first_list, second_list): the non-empty overlaps of every slice
\* of the first list with every slice of the second.
slices_and_lists(first_list, second_list) ==
    LET cut(x, y) == Slice(Some(Max2(StartOr0(x), StartOr0(y))),
                           Some(Min2(x.stop[1], y.stop[1])))
    IN  Flatten([j \in 1..Len(first_list) |->
            SelectSeq([k \in 1..Len(second_list) |-> cut(first_list[j], second_list[k])],
                      LAMBDA x : x.start[1] < x.stop[1])])

\* slices_not(slice_list, begin_at, end_at): the runs of positions from
\* begin_at up to end_at that no slice of the list covers.
slices_not(slice_list, begin_at, end_at) ==
    LET b == IF begin_at = None THEN 0 ELSE begin_at[1]
        e == IF end_at # None THEN end_at[1]
             ELSE SetMax({0} \cup {slice_list[k].stop[1] : k \in 1..Len(slice_list)})
        inside(i, s) == StartOr0(s) <= i /\ (s.stop = None \/ i < s.stop[1])
        workspace == [i \in 1..e |->
                        IF \E k \in 1..Len(slice_list) : inside(i - 1, slice_list[k])
                        THEN Masked ELSE V(0)]
        runs == clump_unmasked(SubSeq(workspace, b + 1, e))
    IN  [k \in 1..Len(runs) |-> Slice(Some(runs[k].start + b), Some(runs[k].stop + b))]

RECURSIVE range_from_first(_, _, _)
\* The loop of lines 258-266 without its else branch: the range of the first
\* approach.
range_from_first(slices, begin, end) ==
    IF slices = <<>> THEN <<begin, end>>
    ELSE LET _slice == Head(slices)
         IN  IF begin = None
             THEN range_from_first(Tail(slices), _slice.start, _slice.stop)
             ELSE range_from_first(Tail(slices), begin, end)

RECURSIVE approach_range(_, _, _)
\* Lines 258-266: begin and end after the loop over the approaches.
approach_range(slices, begin, end) ==
    IF slices = <<>> THEN <<begin, end>>
    ELSE LET _slice == Head(slices)
         IN  IF begin = None
             THEN approach_range(Tail(slices), _slice.start, _slice.stop)
             ELSE approach_range(Tail(slices),
                                 Some(Min2(begin[1], _slice.start[1])),
                                 Some(Max2(end[1], _slice.stop[1])))

\* Approach.derive, lines 253-272.
ApproachDerive ==
    /\ pc = "derive"
    /\ node' = "Approach"
    /\ LET range == approach_range(apps, None, None)
       IN  phases' = slices_and_lists(apps, slices_not(lands, range[1], range[2]))
    /\ pc' = "done"
    /\ UNCHANGED <<error, ilsVars, gearVars, nodeVars>>

\* Approach And Landing phases: none, one, or two apart, both ends set.
Approaches(len) ==
    {<<>>}
    \cup {<<Slice(Some(x.start), Some(x.stop))>> : x \in Slices(len)}
    \cup {<<Slice(Some(y[1].start), Some(y[1].stop)),
            Slice(Some(y[2].start), Some(y[2].stop))>> :
            y \in {x \in Slices(len) \X Slices(len) : x[1].stop < x[2].start}}
\* Landing phases: none, one, or two in order; the start of a landing is
\* unset when 50 ft was not found before it.
Landings(len) ==
    {<<>>}
    \cup {<<Slice(Some(x.start), Some(x.stop))>> : x \in Slices(len)}
    \cup {<<Slice(None, Some(x.stop))>> : x \in Slices(len)}
    \cup {<<Slice(Some(y[1].start), Some(y[1].stop)),
            Slice(Some(y[2].start), Some(y[2].stop))>> :
            y \in {x \in Slices(len) \X Slices(len) : x[1].stop <= x[2].start}}

InitAppr ==
    /\ pc = "derive"
    /\ OutIdle /\ IlsIdle /\ GearIdle /\ NoDerived /\ NoEvents
    /\ NoRunway /\ NoTurns /\ WalkIdle
    /\ alt_aal = <<>> /\ freq = OneHertz
    /\ airborne = <<>> /\ gas = <<>>
    /\ apps \in Approaches(ApprLen)
    /\ lands \in Landings(ApprLen)

SpecAppr == InitAppr /\ [][ApproachDerive]_vars

\* --------------------------------------------------------- Approach claims
\* C20: the samples covered by Approach phases are the samples covered by
\* Approach And Landing phases less the samples covered by Landing phases: no
\* Approach interval overlaps a Landing interval, every Approach interval
\* lies inside an Approach And Landing interval, and no sample outside every
\* Approach And Landing interval is in an Approach interval.
C20_ApproachLessLanding ==
    (pc = "done" /\ node = "Approach") =>
        /\ Covered(phases) = Covered(apps) \ Covered(lands)
        /\ \A k \in 1..Len(phases) :
              /\ Positions(phases[k]) # {}
              /\ Positions(phases[k]) \cap Covered(lands) = {}
              /\ \E j \in 1..Len(apps) : Positions(phases[k]) \subseteq Positions(apps[j])

\* C20 witness: two approaches, the second ending in a landing, give two
\* Approach phases, the second cut short at the landing.
C20_Witness ==
    /\ pc = "done" /\ node = "Approach"
    /\ Len(apps) = 2 /\ Len(lands) = 1 /\ Len(phases) = 2
    /\ lands[1].start # None
    /\ lands[1].stop = apps[2].stop
    /\ phases[1] = apps[1]
    /\ phases[2] = Slice(apps[2].start, lands[1].start)

\* ---------------------------------------------------- ApproachAndLanding
\* Samples in the altitude given to ApproachAndLanding.
AplLen == 5
\* Samples within which the cycle of a landing is looked for, line 218.
LAND_MATCH_DIST == 10000
\* Height (ft) where the approach to a go-around starts, line 233.
GA_APPROACH_HEIGHT == 3000
\* Half a sample, the step of the indices index_at_value_or_level_off gives.
Half == Scale \div 2

\* slices_or(first_list, second_list): the union of the slices as runs that
\* do not overlap, in order.
slices_or(first_list, second_list) ==
    LET all == first_list \o second_list
        top == SetMax({0} \cup {all[k].stop[1] : k \in 1..Len(all)})
        workspace == [i \in 1..(top \div Half) |->
                         IF \E k \in 1..Len(all) :
                               /\ all[k].start[1] <= (i - 1) * Half
                               /\ (i - 1) * Half < all[k].stop[1]
                         THEN V(1) ELSE Masked]
        runs == clump_unmasked(workspace)
    IN  [k \in 1..Len(runs) |-> Slice(Some(runs[k].start * Half), Some(runs[k].stop * Half))]

\* Line 222: from the start of the approach to the end of the landing.
app_slice(app_start, land) == Slice(Some(app_start), land.stop)
\* An approach that stops short of the go-around.
ga_slice_short(ga_start, ga_index) == Slice(Some(ga_start), Some(ga_index * Scale))
\* Line 234: from the start of the approach to the go-around, inclusive.
ga_slice(ga_start, ga_index) == Slice(Some(ga_start), Some((ga_index + 1) * Scale))

\* Lines 218-221 and 230-233: where the search back from index towards the
\* previous peak may end.
approach_starts(index, cycle_idxs, dist, value) ==
    LET prev_peak == cycle_match(index, cycle_idxs, dist)[1]
    IN  index_at_value_or_level_off(alt_aal, value,
                                    [start |-> Some(index), stop |-> prev_peak, step |-> -1])

RECURSIVE one_of_each(_)
\* The lists that take one index from each of the sets of a list.
one_of_each(sets) ==
    IF sets = <<>> THEN {<<>>}
    ELSE {<<x>> \o rest : x \in Head(sets), rest \in one_of_each(Tail(sets))}

\* ApproachAndLanding.derive, lines 209-241.
ApproachAndLandingDerive ==
    /\ pc = "derive"
    /\ node' = "Approach And Landing"
    /\ \E c \in cycle_finder(alt_aal, 0, Len(alt_aal), GA_MIN_STEP) :
          /\ low_points(c, gas)
          /\ \E app_start \in one_of_each([k \in 1..Len(lands) |->
                                  approach_starts(lands[k].start[1] \div Scale, c.idxs,
                                                  LAND_MATCH_DIST,
                                                  INITIAL_APPROACH_THRESHOLD)]),
                ga_start \in one_of_each([k \in 1..Len(gas) |->
                                 approach_starts(gas[k], c.idxs, GA_MATCH_DIST,
                                                 GA_APPROACH_HEIGHT)]) :
                /\ LET app_slices == [k \in 1..Len(lands) |-> app_slice(app_start[k], lands[k])]
                       ga_slices == [k \in 1..Len(gas) |-> ga_slice(ga_start[k], gas[k])]
                       all_apps == slices_or(app_slices, ga_slices)
                   IN  IF all_apps = <<>>
                       THEN /\ warned' = Append(warned, "Flight with no valid approach or go-around phase. Probably truncated data")
                            /\ UNCHANGED phases
                       ELSE /\ phases' = all_apps
                            /\ UNCHANGED warned
    /\ pc' = "done"
    /\ UNCHANGED <<error, ilsVars, gearVars, argVars, walkVars>>

\* Landing phases as Landing creates them, here with the start found: none,
\* one, or two apart of which the second ends the flight.
LandingsFound(len) ==
    {<<>>}
    \cup {<<Slice(Some(x.start * Scale), Some(x.stop * Scale))>> : x \in Slices(len)}
    \cup {<<Slice(Some(y[1].start * Scale), Some(y[1].stop * Scale)),
            Slice(Some(y[2].start * Scale), Some(y[2].stop * Scale))>> :
            y \in {x \in Slices(len) \X Slices(len) :
                      x[1].stop < x[2].start /\ x[2].stop = len}}

\* On the ground or 1000 ft above it.
AplSamples == {V(0), V(1000)}

InitApl ==
    /\ pc = "derive"
    /\ OutIdle /\ IlsIdle /\ GearIdle /\ NoDerived /\ NoEvents
    /\ NoRunway /\ NoTurns /\ WalkIdle /\ freq = OneHertz
    /\ airborne = <<>> /\ apps = <<>>
    /\ alt_aal \in Arrays(AplSamples, AplLen)
    /\ gas \in GoArounds(AplLen)
    /\ \E c \in cycle_finder(alt_aal, 0, AplLen, GA_MIN_STEP) : low_points(c, gas)
    /\ lands \in LandingsFound(AplLen - 1)

SpecApl == InitApl /\ [][ApproachAndLandingDerive]_vars

C21_WitnessNone ==
    /\ pc = "done" /\ node = "Approach And Landing"
    /\ lands = <<>> /\ gas = <<>> /\ phases = <<>> /\ warned # <<>>

\* --------------------------------------- CombinedClimb and CombinedDescent
\* Samples of the flight in which the events lie.
EvLen == 3

AttributeError == [type |-> "AttributeError", name |-> "", frame |-> None]

\* KeyTimeInstanceNode.get_ordered_by_index, get_first and get_last over a
\* list of event indices; get_first and get_last give None for no event.
get_ordered_by_index(events) == Sorted({events[k] : k \in 1..Len(events)})
get_first(events) == IF events = <<>> THEN None ELSE Some(get_ordered_by_index(events)[1])
get_last(events) ==
    IF events = <<>> THEN None ELSE Some(get_ordered_by_index(events)[Len(events)])

\* zip(start_list, end_list) as phases, lines 352-355 and 446-449.
zipped(start_list, end_list) ==
    [k \in 1..Min2(Len(start_list), Len(end_list)) |->
        Slice(Some(start_list[k]), Some(end_list[k]))]

\* Lines 352-361 and 446-455: a phase per pair of events, or the warning and
\* the whole flight from the first liftoff to the last touchdown.  The index
\* of no event (None.index) raises AttributeError.
combined(start_list, end_list, message) ==
    IF Len(start_list) = Len(end_list)
    THEN /\ phases' = zipped(start_list, end_list)
         /\ UNCHANGED <<warned, error>>
    ELSE /\ warned' = Append(warned, message)
         /\ IF get_first(liftoffs) = None \/ get_last(touchdowns) = None
            THEN error' = AttributeError /\ UNCHANGED phases
            ELSE /\ phases' = <<Slice(get_first(liftoffs), get_last(touchdowns))>>
                 /\ UNCHANGED error

\* CombinedClimb.derive, lines 343-361.  Line 350 reads the index of the
\* first liftoff before the lists are compared.
CombinedClimbDerive ==
    /\ pc = "derive" /\ tods = <<>> /\ bods = <<>>
    /\ node' = "Combined Climb"
    /\ IF get_first(liftoffs) = None
       THEN error' = AttributeError /\ UNCHANGED <<phases, warned>>
       ELSE LET end_list == get_ordered_by_index(tocs)
                start_list == get_first(liftoffs) \o get_ordered_by_index(gas)
            IN  combined(start_list, end_list,
                         "Differing number of Liftoff/GA vs TOC, using whole flight as Fallback")
    /\ pc' = "done"
    /\ UNCHANGED <<ilsVars, gearVars, argVars, walkVars>>

\* CombinedDescent.derive, lines 437-455.
CombinedDescentDerive ==
    /\ pc = "derive" /\ tocs = <<>> /\ gas = <<>>
    /\ node' = "Combined Descent"
    /\ LET end_list == get_ordered_by_index(bods)
           start_list == get_ordered_by_index(tods)
       IN  combined(start_list, end_list,
                    "Differing number of TOD vs BOD, using whole flight as Fallback")
    /\ pc' = "done"
    /\ UNCHANGED <<ilsVars, gearVars, argVars, walkVars>>

NextCombined == CombinedClimbDerive \/ CombinedDescentDerive

\* No event, one, or two in order.
Events(len) ==
    {<<>>} \cup {<<i>> : i \in 0..(len - 1)}
           \cup {x \in (0..(len - 1)) \X (0..(len - 1)) : x[1] < x[2]}

InitCombined ==
    /\ pc = "derive"
    /\ OutIdle /\ IlsIdle /\ GearIdle /\ NoDerived
    /\ NoRunway /\ NoTurns /\ WalkIdle
    /\ alt_aal = <<>> /\ freq = OneHertz
    /\ airborne = <<>> /\ apps = <<>> /\ lands = <<>>
    /\ liftoffs \in Events(EvLen)
    /\ touchdowns \in Events(EvLen)
    /\ \/ tocs \in Events(EvLen) /\ gas \in Events(EvLen) /\ tods = <<>> /\ bods = <<>>
       \/ tods \in Events(EvLen) /\ bods \in Events(EvLen) /\ tocs = <<>> /\ gas = <<>>

SpecCombined == InitCombined /\ [][NextCombined]_vars

\* ------------------------------------------------- Combined phase claims
\* The events a node pairs: its starts and its ends.
K_starts ==
    IF node = "Combined Climb"
    THEN (IF liftoffs = <<>> THEN 0 ELSE 1) + Len(gas)
    ELSE Len(tods)
K_ends == IF node = "Combined Climb" THEN Len(tocs) ELSE Len(bods)

\* C22: CombinedClimb and CombinedDescent raise no exception for any event
\* lists, and when the number of start events differs from the number of end
\* events they log a warning and create exactly one phase, from the first
\* liftoff to the last touchdown.
C22_FallbackNeverRaises ==
    (pc = "done" /\ node \in {"Combined Climb", "Combined Descent"}) =>
        /\ error = NoError
        /\ K_starts # K_ends =>
              /\ Len(warned) = 1
              /\ phases = <<Slice(get_first(liftoffs), get_last(touchdowns))>>

\* ------------------------------------------------- scan_ils interval claim
\* The scan of either beam over the whole array or its inner part.
InitIls ==
    \/ InitLoc /\ scan_slice \in {[start |-> 0, stop |-> MaxLen],
                                  [start |-> 1, stop |-> MaxLen - 1]}
    \/ InitGs
SpecIls == InitIls /\ [][NextIls]_vars

C23_WitnessGs ==
    /\ ret.kind = "slice" /\ beam = "glideslope"
    /\ returned_at = "capture"
    /\ ret.start < ret.stop
    /\ ret.stop % Scale # 0

\* ------------------------------------- ClimbCruiseDescent: the walk alone
\* Extrema in the sequence the walk is given.
WalkLen == 4
\* Extremum values (ft).
WalkValues == {0, 1000, 2000}

\* The while loop of lines 317-336 entered with any sequence of extremum
\* values, one at every sample of a flight airborne throughout.
InitWalk ==
    /\ pc = "while"
    /\ node = "Climb Cruise Descent" /\ phases = <<>> /\ error = NoError /\ warned = <<>>
    /\ IlsIdle /\ GearIdle /\ NoDerived /\ NoEvents
    /\ NoRunway /\ NoTurns /\ freq = OneHertz
    /\ gas = <<>> /\ apps = <<>> /\ lands = <<>>
    /\ airborne = <<Slice(None, None)>>
    /\ \E len \in 1..WalkLen :
          /\ pk_vals \in Arrays(WalkValues, len)
          /\ pk_idxs = [k \in 1..len |-> k - 1]
          /\ alt_aal = [k \in 1..len |-> V(pk_vals[k])]
    /\ reached = 1 /\ pk_n = 0

SpecWalk == InitWalk /\ [][NextCcd]_vars

AirLen == 5
\* Shortest flight (s) reported when it touches neither end of the data.
AIRBORNE_THRESHOLD_TIME == 60
\* Gaps (s) in the airborne data that are closed, line 87.
AIR_GAP_TIME == 10

\* np.ma.masked_less_equal(a, x)
masked_less_equal(a, x) == [i \in 1..Len(a) |-> [v |-> a[i].v, m |-> a[i].m \/ a[i].v <= x]]

\* repair_mask(array) fills short runs of invalid samples; an array whose
\* samples are all valid comes back as it is, and one with no valid sample
\* as None.
repair_mask(array) ==
    IF array # <<>> /\ \A i \in 1..Len(array) : array[i].m THEN None ELSE Some(array)

RECURSIVE slices_remove_small_gaps(_, _, _)
\* slices_remove_small_gaps(slice_list, time_limit, hz): a slice that starts
\* less than time_limit seconds after the slice before it ends is joined to it.
slices_remove_small_gaps(slice_list, time_limit, rate) ==
    IF Len(slice_list) < 2 THEN slice_list
    ELSE LET rest == slices_remove_small_gaps(Tail(slice_list), time_limit, rate)
             gap == Head(rest).start - Head(slice_list).stop
         IN  IF gap * rate.den < time_limit * rate.num
             THEN <<Slice(Head(slice_list).start, Head(rest).stop)>> \o Tail(rest)
             ELSE <<Head(slice_list)>> \o rest

\* Lines 91-105: the phase of one airborne stretch of the working array, if
\* any.
air_phase(air, start_point, len, rate) ==
    LET begin == IF air.start + start_point = 0 THEN None ELSE Some(air.start)
        end == IF air.stop + start_point >= len THEN None ELSE Some(air.stop)
    IN  IF begin = None \/ end = None
        THEN <<shift_slice(Slice(begin, end), start_point)>>
        ELSE LET duration == end[1] - begin[1]
             IN  IF duration * rate.den > AIRBORNE_THRESHOLD_TIME * rate.num
                 THEN <<shift_slice(Slice(begin, end), start_point)>>
                 ELSE <<>>

RECURSIVE airborne_phases(_)
\* Airborne.derive, lines 72-105: the loop over the fast sections, left at a
\* section with both ends unset or with no valid altitude.
airborne_phases(sections) ==
    IF sections = <<>> THEN <<>>
    ELSE LET speedy == Head(sections)
             start_point == StartOr0(speedy)
             stop_point == IF speedy.stop = None \/ speedy.stop[1] = 0
                           THEN Len(alt_aal) ELSE speedy.stop[1]
             working_alt == repair_mask(SubSeq(alt_aal, start_point + 1,
                                               Min2(stop_point, Len(alt_aal))))
         IN  IF speedy.start = None /\ speedy.stop = None THEN <<>>
             ELSE IF working_alt = None THEN <<>>
             ELSE LET found == slices_remove_small_gaps(
                                   clump_unmasked(masked_less_equal(working_alt[1], 0)),
                                   AIR_GAP_TIME, freq)
                  IN  Flatten([k \in 1..Len(found) |->
                                  air_phase(found[k], start_point, Len(alt_aal), freq)])
                      \o airborne_phases(Tail(sections))

\* Airborne.derive, lines 69-105.
AirborneDerive ==
    /\ pc = "derive"
    /\ pc' = "done"
    /\ node' = "Airborne"
    /\ phases' = airborne_phases(fast)
    /\ UNCHANGED <<error, ilsVars, gearVars, nodeVars>>

\* Fast sections as Fast reports them, an end unset where the airspeed is far
\* above the threshold: none, one, or two apart.
FastEnds(n) ==
    LET Runs == [run : Slices(n), no_start : BOOLEAN, no_stop : BOOLEAN]
    IN  {<<>>}
        \cup {<<FastSection(t.run, t.no_start, t.no_stop)>> : t \in Runs}
        \cup {<<FastSection(y[1].run, y[1].no_start, y[1].no_stop),
                FastSection(y[2].run, y[2].no_start, y[2].no_stop)>> :
                y \in {x \in Runs \X Runs : x[1].run.stop < x[2].run.start}}
\* One sample a second, or one every 30 seconds (a minute = 2 samples).
AirRates == {OneHertz, [num |-> 1, den |-> 30]}

InitAir ==
    /\ pc = "derive"
    /\ OutIdle /\ IlsIdle /\ GearIdle /\ NoDerived /\ NoEvents
    /\ NoSections /\ NoTurns /\ WalkIdle
    /\ head = <<>>
    /\ alt_aal \in Arrays(AltSamples, AirLen)
    /\ fast \in FastEnds(AirLen)
    /\ freq \in AirRates

SpecAir == InitAir /\ [][AirborneDerive]_vars

\* --------------------------------------------------------- Airborne claims
\* The part of the data a fast section k covers and the airborne stretches
\* in it, as whole-flight indices.
A_from(k) == StartOr0(fast[k])
A_to(k) == IF fast[k].stop = None THEN Len(alt_aal) ELSE fast[k].stop[1]
A_stretches(k) ==
    LET found == slices_remove_small_gaps(
                     clump_unmasked(masked_less_equal(
                         SubSeq(alt_aal, A_from(k) + 1, A_to(k)), 0)),
                     AIR_GAP_TIME, freq)
    IN  [j \in 1..Len(found) |-> Slice(found[j].start + A_from(k), found[j].stop + A_from(k))]
A_touches(x) == x.start = 0 \/ x.stop >= Len(alt_aal)
A_long(x) == (x.stop - x.start) * freq.den > AIRBORNE_THRESHOLD_TIME * freq.num
\* What is reported of the stretches of section k.
A_reported(k) ==
    LET kept == SelectSeq(A_stretches(k), LAMBDA x : A_touches(x) \/ A_long(x))
    IN  [j \in 1..Len(kept) |->
            Slice(IF kept[j].start = 0 THEN None ELSE Some(kept[j].start),
                  IF kept[j].stop >= Len(alt_aal) THEN None ELSE Some(kept[j].stop))]

\* C25: Airborne reports, in whole-flight indices, every airborne stretch
\* that touches an end of the data, with the start unset only when the
\* stretch begins at sample 0 and the stop unset only when it reaches the
\* end of the data, and a stretch with both ends set only if it lasts more
\* than AIRBORNE_THRESHOLD_TIME seconds.
C25_AirborneStretches ==
    (pc = "done" /\ node = "Airborne") =>
        phases = Flatten([k \in 1..Len(fast) |-> A_reported(k)])

\* ------------------------------------------------------------------ Cruise
\* Samples of the flight in which the sections and the events lie.
CruiseLen == 4

TypeError == [type |-> "TypeError", name |-> "", frame |-> None]

\* library.is_index_within_slice: start <= index < stop, an unset end of the
\* slice being no limit.
is_index_within_slice(index, _slice) ==
    /\ (_slice.start # None => _slice.start[1] <= index)
    /\ (_slice.stop # None => index < _slice.stop[1])

\* The events that get_first and get_last look at for within_slice.
within_slice(events, _slice) ==
    LET inside(e) == is_index_within_slice(e, _slice)
    IN  SelectSeq(events, inside)

\* Lines 416-433 for one section: the phase created, or None where the
\* interpreter raises TypeError.  `end <= begin` with an unset operand
\* (line 430) depends on the interpreter: where None is ordered below every
\* number (ordered) an unset end compares as not after any begin and an
\* unset begin as before any end; otherwise the comparison raises.
\* `begin + 1` with begin unset raises in both.
cruise_phase(ccd, ordered) ==
    LET toc == get_first(within_slice(tocs, ccd))
        begin == IF toc # None THEN toc ELSE ccd.start
        tod == get_last(within_slice(tods, ccd))
        end == IF tod # None THEN tod ELSE ccd.stop
    IN  IF begin # None /\ end # None
        THEN Some(Slice(begin, IF end[1] <= begin[1] THEN Some(begin[1] + 1) ELSE end))
        ELSE IF ~ordered THEN None
        ELSE IF end = None
             THEN IF begin = None THEN None
                  ELSE Some(Slice(begin, Some(begin[1] + 1)))
             ELSE Some(Slice(begin, end))

\* Cruise.derive, lines 406-433: a phase per section in turn; an exception
\* ends the loop and keeps the phases created before it.
CruiseDerive ==
    /\ pc = "derive" /\ ccds # <<>>
    /\ node' = "Cruise"
    /\ \E ordered \in BOOLEAN :
         LET made == [k \in 1..Len(ccds) |-> cruise_phase(ccds[k], ordered)]
             raised == {k \in 1..Len(ccds) : made[k] = None}
         IN  IF raised = {}
             THEN /\ phases' = [k \in 1..Len(ccds) |-> made[k][1]]
                  /\ UNCHANGED error
             ELSE /\ phases' = [k \in 1..(SetMin(raised) - 1) |-> made[k][1]]
                  /\ error' = TypeError
    /\ pc' = "done"
    /\ UNCHANGED <<ilsVars, gearVars, argVars, walkVars, warned>>

\* The sections ClimbCruiseDescent creates (lines 322-336): slice(None, j),
\* slice(i, j) and slice(i, None).
CcdSections(len) ==
    {Slice(None, Some(j)) : j \in 1..len}
        \cup {Slice(Some(x.start), Some(x.stop)) : x \in Slices(len)}
        \cup {Slice(Some(i), None) : i \in 0..(len - 1)}

\* One section, or two of which the first ends where the second begins.
Ccds(len) ==
    {<<c>> : c \in CcdSections(len)}
        \cup {x \in CcdSections(len) \X CcdSections(len) :
                x[1].stop # None /\ x[1].stop = x[2].start}

InitCruise ==
    /\ pc = "derive"
    /\ OutIdle /\ IlsIdle /\ GearIdle
    /\ NoRunway /\ NoSections /\ NoTurns /\ WalkIdle
    /\ alt_aal = <<>> /\ freq = OneHertz
    /\ airspeed = <<>> /\ gnds = <<>> /\ toffs = <<>>
    /\ bods = <<>> /\ liftoffs = <<>> /\ touchdowns = <<>>
    /\ ccds \in Ccds(CruiseLen)
    /\ tocs \in Events(CruiseLen)
    /\ tods \in Events(CruiseLen)

SpecCruise == InitCruise /\ [][CruiseDerive]_vars

\* ----------------------------------------------------------- Cruise claim
\* The chosen start of section k: the first Top Of Climb inside it, else its
\* start; the chosen end: the last Top Of Descent inside it, else its stop.
Q_begin(k) ==
    IF get_first(within_slice(tocs, ccds[k])) # None
    THEN get_first(within_slice(tocs, ccds[k])) ELSE ccds[k].start
Q_end(k) ==
    IF get_last(within_slice(tods, ccds[k])) # None
    THEN get_last(within_slice(tods, ccds[k])) ELSE ccds[k].stop

\* C26: Cruise creates exactly one phase per Climb Cruise Descent section,
\* from the chosen start to the chosen end; a phase with both ends set has
\* stop > start, the stop being start + 1 only when the chosen end is not
\* after the chosen start; a section that reaches the end of the data with
\* no Top Of Descent gives a phase that reaches the end of the data.
C26_CruisePerSection ==
    (pc = "done" /\ node = "Cruise") =>
        /\ error = NoError
        /\ Len(phases) = Len(ccds)
        /\ \A k \in 1..Len(ccds) :
             /\ phases[k].start = Q_begin(k)
             /\ (Q_end(k) = None => phases[k].stop = None)
             /\ (Q_end(k) # None /\ Q_begin(k) = None => phases[k].stop = Q_end(k))
             /\ (Q_end(k) # None /\ Q_begin(k) # None =>
                   /\ phases[k].stop[1] > phases[k].start[1]
                   /\ phases[k].stop =
                        (IF Q_end(k)[1] <= Q_begin(k)[1]
                         THEN Some(Q_begin(k)[1] + 1) ELSE Q_end(k)))

\* -------------------------------------------------------------------- Fast
\* Samples of Airspeed For Flight Phases.
FastLen == 5
\* settings.AIRSPEED_THRESHOLD, knots.
AIRSPEED_THRESHOLD == 80
\* Lines 566 and 568: how far from the threshold the first and the last
\* sample of a run may be for the run's start and stop to be kept.
FAST_START_MARGIN == 20
FAST_STOP_MARGIN == 30

\* Lines 563-570 for one run of samples at or above the threshold.
fast_phase(fast_sample) ==
    LET start == fast_sample.start
        stop == fast_sample.stop
    IN  Slice(IF Abs(At(airspeed, start).v - AIRSPEED_THRESHOLD) > FAST_START_MARGIN
              THEN None ELSE Some(start),
              IF Abs(At(airspeed, stop - 1).v - AIRSPEED_THRESHOLD) > FAST_STOP_MARGIN
              THEN None ELSE Some(stop))

\* Fast.derive, lines 547-570: a phase per run.
FastDerive ==
    /\ pc = "derive" /\ airspeed # <<>>
    /\ node' = "Fast"
    /\ LET fast_samples == clump_unmasked(masked_less(airspeed, AIRSPEED_THRESHOLD))
       IN  phases' = [k \in 1..Len(fast_samples) |-> fast_phase(fast_samples[k])]
    /\ pc' = "done"
    /\ UNCHANGED <<error, ilsVars, gearVars, argVars, walkVars, warned>>

\* Airspeeds below the threshold, within both margins of it, beyond the
\* start margin only, beyond both, and an invalid sample.
SpeedSamples == {V(50), V(90), V(105), V(250), Masked}

InitFast ==
    /\ pc = "derive"
    /\ OutIdle /\ IlsIdle /\ GearIdle /\ NoEvents
    /\ NoRunway /\ NoSections /\ NoTurns /\ WalkIdle
    /\ alt_aal = <<>> /\ freq = OneHertz
    /\ ccds = <<>> /\ gnds = <<>> /\ toffs = <<>>
    /\ airspeed \in Arrays(SpeedSamples, FastLen)

SpecFast == InitFast /\ [][FastDerive]_vars

\* ------------------------------------------------------------- Fast claim
\* The valid samples at or above the threshold.
F_fast == {i \in 0..(Len(airspeed) - 1) :
             ~At(airspeed, i).m /\ At(airspeed, i).v >= AIRSPEED_THRESHOLD}

\* C27: Fast creates at most one phase: none when no valid sample is at or
\* above the threshold, otherwise one that encloses all such samples, from
\* the first to the last of them, whatever lies between them.
C27_OneFastPhase ==
    (pc = "done" /\ node = "Fast") =>
        /\ Len(phases) <= 1
        /\ (F_fast = {}) = (phases = <<>>)
        /\ F_fast # {} =>
             /\ phases[1].start \in {None, Some(SetMin(F_fast))}
             /\ phases[1].stop \in {None, Some(SetMax(F_fast) + 1)}

\* ------------------------------------------------------ TaxiIn and TaxiOut
\* Samples of the flight in which the sections lie.
TaxiLen == 5

\* library.slices_overlap for slices with both ends set.
slices_overlap(first_slice, second_slice) ==
    /\ first_slice.start[1] < second_slice.stop[1]
    /\ second_slice.start[1] < first_slice.stop[1]

\* SectionNode.get_last: the section that starts last, None for no section.
get_last_section(sections) ==
    IF sections = <<>> THEN None
    ELSE Some(sections[CHOOSE k \in 1..Len(sections) :
                \A j \in 1..Len(sections) :
                    sections[j].start[1] <= sections[k].start[1]])

\* Lines 1275-1277: the phase for a Grounded section that overlaps the landing.
taxi_in(gnd, land) == Slice(land.stop, gnd.stop)

\* Lines 1292-1294: the phase for a Grounded section that overlaps the takeoff.
taxi_out(gnd, toff) == Slice(Some(gnd.start[1] + 1), Some(toff.start[1] - 1))

\* TaxiIn.derive, lines 1269-1278.
TaxiInDerive ==
    /\ pc = "derive" /\ toffs = <<>>
    /\ node' = "Taxi In"
    /\ LET land == get_last_section(lands)
           over(gnd) == slices_overlap(gnd, land[1])
       IN  IF land = None
           THEN UNCHANGED phases
           ELSE phases' = [k \in 1..Len(SelectSeq(gnds, over)) |->
                             taxi_in(SelectSeq(gnds, over)[k], land[1])]
    /\ pc' = "done"
    /\ UNCHANGED <<error, ilsVars, gearVars, argVars, walkVars, warned>>

\* TaxiOut.derive, lines 1287-1295.
TaxiOutDerive ==
    /\ pc = "derive" /\ lands = <<>>
    /\ node' = "Taxi Out"
    /\ IF toffs = <<>>
       THEN UNCHANGED phases
       ELSE LET toff == toffs[1]
                over(gnd) == slices_overlap(gnd, toff)
            IN  phases' = [k \in 1..Len(SelectSeq(gnds, over)) |->
                             taxi_out(SelectSeq(gnds, over)[k], toff)]
    /\ pc' = "done"
    /\ UNCHANGED <<error, ilsVars, gearVars, argVars, walkVars, warned>>

NextTaxi == TaxiInDerive \/ TaxiOutDerive

\* Grounded, Takeoff and Landing sections: none, one or two in order, both
\* ends set.
InitTaxi ==
    /\ pc = "derive"
    /\ OutIdle /\ IlsIdle /\ GearIdle /\ NoEvents
    /\ NoRunway /\ NoTurns /\ WalkIdle
    /\ alt_aal = <<>> /\ freq = OneHertz
    /\ airborne = <<>> /\ gas = <<>> /\ apps = <<>>
    /\ airspeed = <<>> /\ ccds = <<>>
    /\ gnds \in Approaches(TaxiLen)
    /\ \/ toffs \in Approaches(TaxiLen) /\ lands = <<>>
       \/ lands \in Approaches(TaxiLen) /\ toffs = <<>>

SpecTaxi == InitTaxi /\ [][NextTaxi]_vars

\* ------------------------------------------------------------- Taxi claim
\* C28: every Taxi Out and Taxi In phase with both ends set has
\* start <= stop; a Taxi Out phase ends before the first Takeoff starts and
\* a Taxi In phase starts where the last Landing ends.
C28_TaxiIntervals ==
    (pc = "done" /\ node \in {"Taxi In", "Taxi Out"}) =>
        \A k \in 1..Len(phases) :
            /\ (phases[k].start # None /\ phases[k].stop # None =>
                    phases[k].start[1] <= phases[k].stop[1])
            /\ (node = "Taxi Out" => phases[k].stop[1] < toffs[1].start[1])
            /\ (node = "Taxi In" => phases[k].start = lands[Len(lands)].stop)

\* ---------------------------------------------------------------- Grounded
\* Samples of Airspeed For Flight Phases.
GndLen == 4

\* np.ma.median(array) > value: the middle valid sample, or the mean of the
\* two middle ones, is above the value; with no valid sample the median is
\* masked and the test is not true.
median_above(array, value) ==
    LET valid == {i \in 1..Len(array) : ~array[i].m}
        count == Cardinality(valid)
        rank(i) == Cardinality({j \in valid : array[j].v < array[i].v
                                              \/ (array[j].v = array[i].v /\ j < i)})
        nth(r) == array[CHOOSE i \in valid : rank(i) = r].v
    IN  /\ count > 0
        /\ IF count % 2 = 1
           THEN nth(count \div 2) > value
           ELSE nth(count \div 2 - 1) + nth(count \div 2) > 2 * value

\* Lines 975-983: the complement of the Airborne sections, or the whole data
\* when the complement is empty.
gnd_phases(air, speed) ==
    LET data_end == Len(speed)
        complement == slices_not(air, Some(0), Some(data_end))
    IN  IF complement # <<>> THEN complement
        ELSE IF median_above(speed, AIRSPEED_THRESHOLD)
             THEN <<Slice(None, None)>>
             ELSE <<Slice(Some(0), Some(data_end))>>

\* Grounded.derive, lines 974-985.
GroundedDerive ==
    /\ pc = "derive" /\ airspeed # <<>>
    /\ node' = "Grounded"
    /\ phases' = gnd_phases(airborne, airspeed)
    /\ pc' = "done"
    /\ UNCHANGED <<error, ilsVars, gearVars, argVars, walkVars, warned>>

\* Airborne sections over len samples: none, one or two in order; an end at
\* the first sample or at the end of the data is set or unset.
AirEnds(x, len) ==
    {Slice(s, e) : s \in {Some(x.start)} \cup (IF x.start = 0 THEN {None} ELSE {}),
                   e \in {Some(x.stop)} \cup (IF x.stop = len THEN {None} ELSE {})}

AirSections(len) ==
    {<<>>} \cup {<<a>> : a \in UNION {AirEnds(x, len) : x \in Slices(len)}}
           \cup UNION {AirEnds(y[1], len) \X AirEnds(y[2], len) :
                         y \in {x \in Slices(len) \X Slices(len) : x[1].stop < x[2].start}}

\* Below and above the airspeed threshold, and an invalid sample.
GndSpeeds == {V(50), V(250), Masked}

InitGnd ==
    /\ pc = "derive"
    /\ OutIdle /\ IlsIdle /\ GearIdle /\ NoEvents
    /\ NoRunway /\ NoTurns /\ WalkIdle
    /\ alt_aal = <<>> /\ freq = OneHertz
    /\ gas = <<>> /\ apps = <<>> /\ lands = <<>>
    /\ ccds = <<>> /\ gnds = <<>> /\ toffs = <<>>
    /\ airspeed \in Arrays(GndSpeeds, GndLen)
    /\ airborne \in AirSections(GndLen)

SpecGnd == InitGnd /\ [][GroundedDerive]_vars

\* ---------------------------------------------------------- Grounded claim
\* The samples of the data that a list of sections covers, an unset end
\* standing for the boundary of the data.
G_samples(sections) ==
    {i \in 0..(Len(airspeed) - 1) :
        \E k \in 1..Len(sections) :
            /\ StartOr0(sections[k]) <= i
            /\ (sections[k].stop = None \/ i < sections[k].stop[1])}

\* C29: Grounded is the complement of Airborne over [0, length): no sample
\* lies in both a Grounded and an Airborne section and every sample of the
\* data lies in one of them, for no Airborne section and for one that covers
\* the whole flight too.
C29_GroundedComplement ==
    (pc = "done" /\ node = "Grounded") =>
        /\ G_samples(phases) \cap G_samples(airborne) = {}
        /\ G_samples(phases) \cup G_samples(airborne) = 0..(Len(airspeed) - 1)

====
